---------------------------- MODULE Spec2Model ----------------------------
(***************************************************************************)
(* Verification model of the LMS backend (api.stickrhiveacademy):          *)
(*   - course progress: calculateProgressStats, initializeProgress, the    *)
(*     get-progress / initialize / toggle route handlers                   *)
(*   - submissions: create (with auto-grade), grade, resubmit, and the     *)
(*     Submission pre-save hooks                                           *)
(*                                                                         *)
(* Specifications:                                                         *)
(*   Spec      progress handlers, one request at a time                    *)
(*   SpecStats calculateProgressStats as a pure function of its inputs     *)
(*   SpecConc  progress handlers interleaved at their awaits               *)
(*   SpecSub   submission handlers interleaved at their awaits             *)
(***************************************************************************)
EXTENDS Integers, Sequences, FiniteSets, TLC

(***************************************************************************)
(* Bounds of the model.                                                    *)
(***************************************************************************)
MaxModules == 2
MaxLectures == 2
MaxStatLectures == 40
NumSlots == 2
MaxAnswers == 1
MaxResubmits == 1
MaxInterleaved == 2
MaxBank == 2
MaxDocs == 3
MaxTokens == 3
MaxTicks == 3
MaxRequests == 2
MaxStudents == 2
ResetTtl == 3600000
MaxBodyQuestions == 1
TotalPoints == 100
MaxTenths == 1000
MaxQuestions == 2
MaxQuizAnswers == 2

NULL == "null"
DATE == "date"

(***************************************************************************)
(* IEEE-754 double arithmetic, as far as Math.round((c / t) * 100) needs   *)
(* it.  A positive double is [a, b, c, e]: its 53-bit mantissa is          *)
(* a * 2^34 + b * 2^16 + c with 2^18 <= a < 2^19, b < 2^18, c < 2^16, and  *)
(* its value is mantissa * 2^(e - 52).  Zero is [a |-> 0, ...].  The limbs *)
(* keep every intermediate product inside 32-bit integers.                 *)
(***************************************************************************)
RECURSIVE Pow2(_)
Pow2(n) == IF n = 0 THEN 1 ELSE 2 * Pow2(n - 1)

FZero == [a |-> 0, b |-> 0, c |-> 0, e |-> 0]

\* largest k >= 0 with d * 2^k <= n   (n >= d >= 1)
RECURSIVE ShiftUp(_, _, _)
ShiftUp(n, d, k) == IF d * Pow2(k + 1) <= n THEN ShiftUp(n, d, k + 1) ELSE k

\* smallest k >= 1 with n * 2^k >= d   (1 <= n < d)
RECURSIVE ShiftDown(_, _, _)
ShiftDown(n, d, k) == IF n * Pow2(k) >= d THEN k ELSE ShiftDown(n, d, k + 1)

\* the mantissa plus one unit in the last place
FIncrement(x) ==
    IF x.c + 1 < Pow2(16) THEN [x EXCEPT !.c = x.c + 1]
    ELSE IF x.b + 1 < Pow2(18) THEN [x EXCEPT !.c = 0, !.b = x.b + 1]
    ELSE IF x.a + 1 < Pow2(19) THEN [x EXCEPT !.c = 0, !.b = 0, !.a = x.a + 1]
    ELSE [a |-> Pow2(18), b |-> 0, c |-> 0, e |-> x.e + 1]

\* round to nearest, ties to even: guard is the first dropped bit, sticky
\* says whether any later dropped bit is set
FRound(x, guard, sticky) ==
    IF guard = 1 /\ (sticky \/ (x.c % 2) = 1) THEN FIncrement(x) ELSE x

\* the double nearest to n / d, for integers n >= 0 and 1 <= d < 2^12
FDiv(n, d) ==
    IF n = 0 THEN FZero
    ELSE LET e == IF n >= d THEN ShiftUp(n, d, 0) ELSE 0 - ShiftDown(n, d, 1)
             num == IF e >= 0 THEN n ELSE n * Pow2(0 - e)
             den == IF e >= 0 THEN d * Pow2(e) ELSE d
             r0 == num - den
             q1 == (r0 * Pow2(18)) \div den
             r1 == (r0 * Pow2(18)) % den
             q2 == (r1 * Pow2(18)) \div den
             r2 == (r1 * Pow2(18)) % den
             q3 == (r2 * Pow2(17)) \div den
             r3 == (r2 * Pow2(17)) % den
         IN FRound([a |-> Pow2(18) + q1, b |-> q2, c |-> q3 \div 2, e |-> e],
                   q3 % 2, r3 # 0)

\* the double nearest to x * k, for a double x >= 0 and an integer 64 <= k < 128
FMul(x, k) ==
    IF x.a = 0 THEN x
    ELSE LET pc == x.c * k
             pb == (x.b * k) + (pc \div Pow2(16))
             pa == (x.a * k) + (pb \div Pow2(18))
             lowC == pc % Pow2(16)
             lowB == pb % Pow2(18)
             d == IF pa < Pow2(25) THEN 6 ELSE 7
             cut == Pow2(d)
         IN FRound([a |-> pa \div cut,
                    b |-> ((pa % cut) * Pow2(18 - d)) + (lowB \div cut),
                    c |-> ((lowB % cut) * Pow2(16 - d)) + (lowC \div cut),
                    e |-> x.e + d],
                   (lowC \div Pow2(d - 1)) % 2,
                   (lowC % Pow2(d - 1)) # 0)

\* Math.round of a double 0 <= x < 2^17: the nearest integer, ties up
MathRound(x) ==
    IF x.a = 0 \/ x.e < 0 - 1 THEN 0
    ELSE IF x.e = 0 - 1 THEN 1
    ELSE (x.a \div Pow2(18 - x.e)) + ((x.a \div Pow2(17 - x.e)) % 2)

(***************************************************************************)
(* The database and the requests in flight.                                *)
(***************************************************************************)
VARIABLES
    course,        \* the Course document: [modules |-> Seq of [_id, lectures]]
    nextModuleId,  \* the next fresh module _id
    nextLectureId, \* the next fresh lecture _id
    enrolled,      \* students holding an Enrollment with status 'enrolled'
    progressDocs,  \* the Progress collection, a set of documents
    nextDocId,     \* the next fresh Progress _id
    resp,          \* the last response sent
    fresh,         \* history: the user's record is as seeded plus first toggles
    toggledOnce,   \* history: the lectures toggled since the record was seeded
    pair,          \* history: a toggle of one lecture, and its immediate repeat
    statInput,     \* SpecStats: the course and progress handed to the function
    statResult,    \* SpecStats: what calculateProgressStats returned
    letterInput,   \* SpecLetter: the percentage handed to the letter mapping
    letterResult,  \* SpecLetter: what getLetterGrade and the hook returned
    quizInput,     \* SpecQuiz: the assignment and answers handed to autoGradeQuiz
    quizResult,    \* SpecQuiz: what autoGradeQuiz returned
    reqs,          \* SpecConc: the progress requests in flight, by slot
    applied,       \* SpecConc history: lectures toggled an odd number of times
    submissions,   \* SpecSub: the Submission collection, a set of documents
    nextSubId,     \* SpecSub: the next fresh Submission _id
    subReqs,       \* SpecSub: the submission requests in flight, by slot
    pastDue,       \* SpecSub: the assignment's dueDate has passed
    allowLate,     \* SpecSub: the assignment's allowLateSubmission
    resubmits,     \* SpecSub: resubmit requests that may still start
    bank,          \* SpecBank: the assignment and its question bank
    autoGrade,     \* SpecAuto: the assignment's quizSettings.autoGrade
    auth,          \* SpecAuth: the account, the clock, and what was issued
    att            \* SpecAtt: the enrollment, the attendance, the requests

progVars == <<course, nextModuleId, nextLectureId, enrolled, progressDocs,
              nextDocId, resp, fresh, toggledOnce, pair>>
statVars == <<statInput, statResult, letterInput, letterResult, quizInput,
              quizResult>>
concVars == <<reqs, applied>>
subVars == <<submissions, nextSubId, subReqs, pastDue, allowLate, resubmits>>
otherVars == <<bank, autoGrade, auth, att>>
vars == <<progVars, statVars, concVars, subVars, otherVars>>

Students == {"s1"}
CourseId == "c1"
MissingCourseId == "c0"
ModuleIds == 1..MaxModules
LectureIds == 1..MaxLectures

(***************************************************************************)
(* calculateProgressStats                                                  *)
(***************************************************************************)
RECURSIVE CountLectures(_)
CountLectures(modules) ==
    IF modules = <<>> THEN 0
    ELSE Len(Head(modules).lectures) + CountLectures(Tail(modules))

\* a count that takes every entry, complete or not
CountCompletedLectures_Every(lecturesProgress) == Len(lecturesProgress)

RECURSIVE CountCompletedLectures(_)
CountCompletedLectures(lecturesProgress) ==
    IF lecturesProgress = <<>> THEN 0
    ELSE (IF Head(lecturesProgress).completed THEN 1 ELSE 0)
         + CountCompletedLectures(Tail(lecturesProgress))

RECURSIVE CountCompleted(_)
CountCompleted(modulesProgress) ==
    IF modulesProgress = <<>> THEN 0
    ELSE CountCompletedLectures(Head(modulesProgress).lecturesProgress)
         + CountCompleted(Tail(modulesProgress))

\* Math.round((completedLectures / totalLectures) * 100)
RoundedPercentage(completedLectures, totalLectures) ==
    MathRound(FMul(FDiv(completedLectures, totalLectures), 100))

\* the number of lecture-progress entries of a record
RECURSIVE CountEntries(_)
CountEntries(modulesProgress) ==
    IF modulesProgress = <<>> THEN 0
    ELSE Len(Head(modulesProgress).lecturesProgress)
         + CountEntries(Tail(modulesProgress))

\* statistics whose total is taken from the progress record
calculateProgressStats_RecordTotal(c, progress) ==
    LET totalLectures == CountEntries(progress.modulesProgress)
        completedLectures == CountCompleted(progress.modulesProgress)
        progressPercentage ==
            IF totalLectures > 0
            THEN RoundedPercentage(completedLectures, totalLectures)
            ELSE 0
        courseCompleted == totalLectures > 0 /\ completedLectures = totalLectures
    IN [completedLecturesCount |-> completedLectures,
        totalLecturesCount |-> totalLectures,
        progressPercentage |-> progressPercentage,
        completed |-> courseCompleted,
        completedAt |-> IF courseCompleted THEN DATE ELSE NULL]

calculateProgressStats(c, progress) ==
    LET totalLectures == CountLectures(c.modules)
        completedLectures == CountCompleted(progress.modulesProgress)
        progressPercentage ==
            IF totalLectures > 0
            THEN RoundedPercentage(completedLectures, totalLectures)
            ELSE 0
        courseCompleted == totalLectures > 0 /\ completedLectures = totalLectures
    IN [completedLecturesCount |-> completedLectures,
        totalLecturesCount |-> totalLectures,
        progressPercentage |-> progressPercentage,
        completed |-> courseCompleted,
        completedAt |-> IF courseCompleted THEN DATE ELSE NULL]

(***************************************************************************)
(* initializeProgress, the Progress schema and its unique index            *)
(***************************************************************************)
\* an entry seeded as already complete
NewLectureProgress_Complete(lectureId) ==
    [lectureId |-> lectureId, completed |-> TRUE, completedAt |-> DATE]

NewLectureProgress(lectureId) ==
    [lectureId |-> lectureId, completed |-> FALSE, completedAt |-> NULL]

\* a module entry seeded without its lectures
NewModuleProgress_NoLectures(module) ==
    [moduleId |-> module._id, completed |-> FALSE, completedAt |-> NULL,
     lecturesProgress |-> <<>>]

NewModuleProgress(module) ==
    [moduleId |-> module._id,
     completed |-> FALSE,
     completedAt |-> NULL,
     lecturesProgress |->
        [i \in 1..Len(module.lectures) |-> NewLectureProgress(module.lectures[i])]]

\* the document initializeProgress builds before it saves it
initializeProgress(c, userId, courseId, id) ==
    [_id |-> id,
     userId |-> userId,
     courseId |-> courseId,
     modulesProgress |-> [i \in 1..Len(c.modules) |-> NewModuleProgress(c.modules[i])],
     completedLecturesCount |-> 0,
     totalLecturesCount |-> CountLectures(c.modules),
     progressPercentage |-> 0,
     completed |-> FALSE,
     completedAt |-> NULL]

\* the collection without its unique index
ProgressIndexConflict_None(docs, d) == FALSE

\* CourseProgressSchema.index({userId: 1, courseId: 1}, {unique: true})
ProgressIndexConflict(docs, d) ==
    \E x \in docs : x._id # d._id /\ x.userId = d.userId /\ x.courseId = d.courseId

\* the schema validators run by save(): progressPercentage min 0, max 100
ProgressValid(d) == d.progressPercentage >= 0 /\ d.progressPercentage <= 100

\* a lookup that never finds the record
FindProgress_Nothing(docs, userId, courseId) == {}

\* Progress.findOne({userId, courseId}): the documents it may return
FindProgress(docs, userId, courseId) ==
    {d \in docs : d.userId = userId /\ d.courseId = courseId}

(***************************************************************************)
(* The toggle handler's change to the document it holds                    *)
(***************************************************************************)
\* Array.findIndex, 1-based; 0 stands for -1
ModuleIndex(modules, moduleId) ==
    IF \E i \in 1..Len(modules) : modules[i]._id = moduleId
    THEN CHOOSE i \in 1..Len(modules) :
            /\ modules[i]._id = moduleId
            /\ \A j \in 1..(i - 1) : modules[j]._id # moduleId
    ELSE 0

LectureIndex(lectures, lectureId) ==
    IF \E i \in 1..Len(lectures) : lectures[i] = lectureId
    THEN CHOOSE i \in 1..Len(lectures) :
            /\ lectures[i] = lectureId
            /\ \A j \in 1..(i - 1) : lectures[j] # lectureId
    ELSE 0

ModuleProgressIndex(modulesProgress, moduleId) ==
    IF \E i \in 1..Len(modulesProgress) : modulesProgress[i].moduleId = moduleId
    THEN CHOOSE i \in 1..Len(modulesProgress) :
            /\ modulesProgress[i].moduleId = moduleId
            /\ \A j \in 1..(i - 1) : modulesProgress[j].moduleId # moduleId
    ELSE 0

LectureProgressIndex(lecturesProgress, lectureId) ==
    IF \E i \in 1..Len(lecturesProgress) : lecturesProgress[i].lectureId = lectureId
    THEN CHOOSE i \in 1..Len(lecturesProgress) :
            /\ lecturesProgress[i].lectureId = lectureId
            /\ \A j \in 1..(i - 1) : lecturesProgress[j].lectureId # lectureId
    ELSE 0

\* a flip that stamps completedAt whichever way it went
FlipLecture_KeepsDate(lp) ==
    [lp EXCEPT !.completed = ~lp.completed, !.completedAt = DATE]

\* lectureProgress.completed = !lectureProgress.completed, and its completedAt
FlipLecture(lp) ==
    [lp EXCEPT !.completed = ~lp.completed,
               !.completedAt = IF ~lp.completed THEN DATE ELSE NULL]

\* a module entry left as the flip found it
RecomputeModule_Skipped(mp) == mp

\* the owning module's completed / completedAt from the entries it holds
RecomputeModule(mp) ==
    LET allLecturesCompleted ==
            \A i \in 1..Len(mp.lecturesProgress) : mp.lecturesProgress[i].completed
    IN [mp EXCEPT !.completed = allLecturesCompleted,
                  !.completedAt = IF allLecturesCompleted THEN DATE ELSE NULL]

\* the statistics written back without the completed flag
ApplyStats_NoCompleted(c, progress) ==
    LET stats == calculateProgressStats(c, progress)
    IN [progress EXCEPT !.completedLecturesCount = stats.completedLecturesCount,
                        !.totalLecturesCount = stats.totalLecturesCount,
                        !.progressPercentage = stats.progressPercentage,
                        !.completedAt = stats.completedAt]

\* the recomputed statistics written over the cached fields
ApplyStats(c, progress) ==
    LET stats == calculateProgressStats(c, progress)
    IN [progress EXCEPT !.completedLecturesCount = stats.completedLecturesCount,
                        !.totalLecturesCount = stats.totalLecturesCount,
                        !.progressPercentage = stats.progressPercentage,
                        !.completed = stats.completed,
                        !.completedAt = stats.completedAt]

\* the document after the handler's in-memory changes, before save();
\* moduleId and lectureId were found in the course
ToggleLecture(c, progress, moduleId, lectureId) ==
    LET module == c.modules[ModuleIndex(c.modules, moduleId)]
        withModule ==
            IF ModuleProgressIndex(progress.modulesProgress, moduleId) = 0
            THEN Append(progress.modulesProgress, NewModuleProgress(module))
            ELSE progress.modulesProgress
        mi == ModuleProgressIndex(withModule, moduleId)
        withLecture ==
            IF LectureProgressIndex(withModule[mi].lecturesProgress, lectureId) = 0
            THEN Append(withModule[mi].lecturesProgress, NewLectureProgress(lectureId))
            ELSE withModule[mi].lecturesProgress
        li == LectureProgressIndex(withLecture, lectureId)
        flipped == [withLecture EXCEPT ![li] = FlipLecture(withLecture[li])]
        moduleProgress ==
            RecomputeModule([withModule[mi] EXCEPT !.lecturesProgress = flipped])
    IN ApplyStats(c, [progress EXCEPT
                        !.modulesProgress = [withModule EXCEPT ![mi] = moduleProgress]])

(***************************************************************************)
(* History kept for the properties: what happened to a record since it was *)
(* seeded, and whether the last two operations toggled the same lecture.   *)
(***************************************************************************)
\* the students are the users that hold an enrollment; req.user.role
Users == Students
Admin == "admin1"
Role(user) == IF user = Admin THEN "admin" ELSE "student"

NoPair == [user |-> NULL, lecture |-> 0, stage |-> 0, count0 |-> 0]

Response(op, user, status) == [op |-> op, user |-> user, status |-> status]

\* nothing that concerns user's record happened beyond this response
Answer(op, user, status) ==
    /\ resp' = Response(op, user, status)
    /\ pair' = NoPair

Seeded(user) ==
    /\ fresh' = [u \in Users |-> IF u = user THEN TRUE ELSE fresh[u]]
    /\ toggledOnce' = [u \in Users |-> IF u = user THEN {} ELSE toggledOnce[u]]

CourseEdited ==
    /\ fresh' = [u \in Users |-> FALSE]
    /\ toggledOnce' = [u \in Users |-> {}]
    /\ pair' = NoPair
    /\ resp' = Response("course", NULL, 200)
    /\ UNCHANGED <<enrolled, progressDocs, nextDocId, statVars, otherVars, concVars, subVars>>

LectureEntry(doc, lectureId) ==
    LET mi == CHOOSE i \in 1..Len(doc.modulesProgress) :
                LectureProgressIndex(doc.modulesProgress[i].lecturesProgress, lectureId) # 0
        lps == doc.modulesProgress[mi].lecturesProgress
    IN lps[LectureProgressIndex(lps, lectureId)]

(***************************************************************************)
(* The course as its instructor edits it, and enrollment.  The routes that *)
(* do this are outside the files at hand; what they can do to the Course   *)
(* document follows from its schema (arrays of subdocuments with _id).     *)
(***************************************************************************)
AddModule ==
    /\ nextModuleId <= MaxModules
    /\ course' = [course EXCEPT !.modules =
                    Append(@, [_id |-> nextModuleId, lectures |-> <<>>])]
    /\ nextModuleId' = nextModuleId + 1
    /\ UNCHANGED nextLectureId
    /\ CourseEdited

AddLecture(mi) ==
    /\ nextLectureId <= MaxLectures
    /\ mi \in 1..Len(course.modules)
    /\ course' = [course EXCEPT !.modules[mi].lectures = Append(@, nextLectureId)]
    /\ nextLectureId' = nextLectureId + 1
    /\ UNCHANGED nextModuleId
    /\ CourseEdited

RemoveAt(seq, i) == SubSeq(seq, 1, i - 1) \o SubSeq(seq, i + 1, Len(seq))

RemoveLecture(mi, li) ==
    /\ mi \in 1..Len(course.modules)
    /\ li \in 1..Len(course.modules[mi].lectures)
    /\ course' = [course EXCEPT !.modules[mi].lectures = RemoveAt(@, li)]
    /\ UNCHANGED <<nextModuleId, nextLectureId>>
    /\ CourseEdited

RemoveModule(mi) ==
    /\ mi \in 1..Len(course.modules)
    /\ course' = [course EXCEPT !.modules = RemoveAt(@, mi)]
    /\ UNCHANGED <<nextModuleId, nextLectureId>>
    /\ CourseEdited

Enroll(s) ==
    /\ s \in Students \ enrolled
    /\ enrolled' = enrolled \cup {s}
    /\ Answer("enroll", s, 200)
    /\ UNCHANGED <<course, nextModuleId, nextLectureId, progressDocs, nextDocId,
                   fresh, toggledOnce, statVars, otherVars, concVars, subVars>>

Unenroll(s) ==
    /\ s \in enrolled
    /\ enrolled' = enrolled \ {s}
    /\ Answer("enroll", s, 200)
    /\ UNCHANGED <<course, nextModuleId, nextLectureId, progressDocs, nextDocId,
                   fresh, toggledOnce, statVars, otherVars, concVars, subVars>>

\* an enrollment check that every user of the course passes
Enrollment_Everyone(user, courseId) == courseId = CourseId

\* Enrollment.findOne({student, course, status: 'enrolled'})
Enrollment(user, courseId) == user \in enrolled /\ courseId = CourseId

\* Course.findById(courseId)
CourseExists(courseId) == courseId = CourseId

(***************************************************************************)
(* GET /api/progress/course/:courseId, one request at a time               *)
(***************************************************************************)
GetProgress(user, courseId) ==
    /\ UNCHANGED <<course, nextModuleId, nextLectureId, enrolled, statVars, otherVars, concVars, subVars>>
    /\ IF ~CourseExists(courseId)
       THEN /\ Answer("get", user, 404)
            /\ UNCHANGED <<progressDocs, nextDocId, fresh, toggledOnce>>
       ELSE IF Role(user) = "student" /\ ~Enrollment(user, courseId)
       THEN /\ Answer("get", user, 403)
            /\ UNCHANGED <<progressDocs, nextDocId, fresh, toggledOnce>>
       ELSE IF FindProgress(progressDocs, user, courseId) # {}
       THEN /\ Answer("get", user, 200)
            /\ UNCHANGED <<progressDocs, nextDocId, fresh, toggledOnce>>
       ELSE LET progress == initializeProgress(course, user, courseId, nextDocId)
            IN /\ progressDocs' = progressDocs \cup {progress}
               /\ nextDocId' = nextDocId + 1
               /\ Seeded(user)
               /\ Answer("get", user, 200)

(***************************************************************************)
(* POST /api/progress/initialize/:courseId, one request at a time          *)
(***************************************************************************)
InitializeRoute(user, courseId) ==
    /\ user \in Students
    /\ UNCHANGED <<course, nextModuleId, nextLectureId, enrolled, statVars, otherVars, concVars, subVars>>
    /\ IF ~Enrollment(user, courseId)
       THEN /\ Answer("initialize", user, 403)
            /\ UNCHANGED <<progressDocs, nextDocId, fresh, toggledOnce>>
       ELSE IF FindProgress(progressDocs, user, courseId) # {}
       THEN /\ Answer("initialize", user, 200)
            /\ UNCHANGED <<progressDocs, nextDocId, fresh, toggledOnce>>
       ELSE IF ~CourseExists(courseId)
       THEN /\ Answer("initialize", user, 404)
            /\ UNCHANGED <<progressDocs, nextDocId, fresh, toggledOnce>>
       ELSE LET progress == initializeProgress(course, user, courseId, nextDocId)
            IN /\ progressDocs' = progressDocs \cup {progress}
               /\ nextDocId' = nextDocId + 1
               /\ Seeded(user)
               /\ Answer("initialize", user, 201)

(***************************************************************************)
(* POST /api/progress/lecture/:courseId/:moduleId/:lectureId/toggle, one   *)
(* request at a time                                                       *)
(***************************************************************************)
ToggleRejection(user, courseId, moduleId, lectureId) ==
    IF ~Enrollment(user, courseId) THEN 403
    ELSE IF ~CourseExists(courseId) THEN 404
    ELSE IF ModuleIndex(course.modules, moduleId) = 0 THEN 404
    ELSE IF LectureIndex(course.modules[ModuleIndex(course.modules, moduleId)].lectures,
                         lectureId) = 0 THEN 404
    ELSE 0

\* the history after user's toggle of lectureId was saved as `after`
ToggleRecorded(user, lectureId, seededNow, countBefore, after) ==
    LET wasFresh == seededNow \/ fresh[user]
        once == IF seededNow THEN {} ELSE toggledOnce[user]
        first == wasFresh /\ lectureId \notin once
    IN /\ fresh' = [fresh EXCEPT ![user] = first]
       /\ toggledOnce' = [toggledOnce EXCEPT ![user] =
                            IF first THEN once \cup {lectureId} ELSE {}]
       /\ pair' = IF LectureEntry(after, lectureId).completed
                  THEN [user |-> user, lecture |-> lectureId, stage |-> 1,
                        count0 |-> countBefore]
                  ELSE IF pair.stage = 1 /\ pair.user = user /\ pair.lecture = lectureId
                  THEN [pair EXCEPT !.stage = 2]
                  ELSE NoPair

Toggle(user, courseId, moduleId, lectureId) ==
    /\ user \in Students
    /\ UNCHANGED <<course, nextModuleId, nextLectureId, enrolled, statVars, otherVars, concVars, subVars>>
    /\ IF ToggleRejection(user, courseId, moduleId, lectureId) # 0
       THEN /\ Answer("toggle", user,
                      ToggleRejection(user, courseId, moduleId, lectureId))
            /\ UNCHANGED <<progressDocs, nextDocId, fresh, toggledOnce>>
       ELSE LET found == FindProgress(progressDocs, user, courseId)
                seededNow == found = {}
                seeded == initializeProgress(course, user, courseId, nextDocId)
            IN /\ nextDocId' = IF seededNow THEN nextDocId + 1 ELSE nextDocId
               /\ \E progress \in (IF seededNow THEN {seeded} ELSE found) :
                    LET after == ToggleLecture(course, progress, moduleId, lectureId)
                    IN IF ProgressValid(after)
                       THEN /\ progressDocs' = (progressDocs \ {progress}) \cup {after}
                            /\ resp' = Response("toggle", user, 200)
                            /\ ToggleRecorded(user, lectureId, seededNow,
                                              progress.completedLecturesCount, after)
                       ELSE /\ progressDocs' = progressDocs \cup {progress}
                            /\ Answer("toggle", user, 500)
                            /\ IF seededNow THEN Seeded(user)
                               ELSE UNCHANGED <<fresh, toggledOnce>>

(***************************************************************************)
(* Spec: the progress routes, one request at a time                        *)
(***************************************************************************)
ProgInit ==
    /\ course = [modules |-> <<>>]
    /\ nextModuleId = 1
    /\ nextLectureId = 1
    /\ enrolled = {}
    /\ progressDocs = {}
    /\ nextDocId = 1
    /\ resp = Response("none", NULL, 0)
    /\ fresh = [u \in Users |-> FALSE]
    /\ toggledOnce = [u \in Users |-> {}]
    /\ pair = NoPair

NoResult == [none |-> TRUE]

StatIdle ==
    /\ statInput = [completed |-> 0, total |-> 0]
    /\ statResult = NoResult

LetterIdle ==
    /\ letterInput = [num |-> 0, den |-> 1, below |-> FALSE]
    /\ letterResult = [helper |-> NULL, hook |-> NULL]

QuizIdle ==
    /\ quizInput = [totalPoints |-> TotalPoints, questions |-> <<>>,
                    answers |-> <<>>]
    /\ quizResult = NoResult

PureIdle == LetterIdle /\ QuizIdle

Slots == 1..NumSlots

NoDoc == [none |-> TRUE]

IdleRequest ==
    [op |-> "idle", user |-> NULL, moduleId |-> 0, lectureId |-> 0,
     pc |-> "idle", doc |-> NoDoc]

ConcIdle ==
    /\ reqs = [r \in Slots |-> IdleRequest]
    /\ applied = {}

NoGrade == [none |-> TRUE]

IdleSubRequest ==
    [op |-> "idle", user |-> NULL, pc |-> "idle", body |-> NoDoc, doc |-> NoDoc]

SubIdle ==
    /\ submissions = {}
    /\ nextSubId = 1
    /\ subReqs = [r \in Slots |-> IdleSubRequest]
    /\ pastDue = FALSE
    /\ allowLate = TRUE
    /\ resubmits = MaxResubmits

\* no assignment created yet
BankIdle == bank = [created |-> FALSE, questions |-> <<>>]

\* the assignment grades quizzes automatically
AutoGradeIdle == autoGrade = TRUE

\* sha256 of a token: a value of its own for each token; NoHash is undefined
Sha256(token) == [sha256 |-> token]
NoHash == [sha256 |-> 0]

\* the response of an auth route: status and body
AuthResponse(op, status, message, email, resetToken) ==
    [op |-> op, status |-> status, message |-> message, email |-> email,
     resetToken |-> resetToken]

NoResponse == AuthResponse("none", 0, NULL, NULL, 0)

KnownEmail == "known@mail"
UnknownEmail == "unknown@mail"

\* an account that asked for no reset, and nothing sent yet
AuthStart(isActive) ==
    [user |-> [email |-> KnownEmail, isActive |-> isActive, password |-> "p0",
               passwordResetToken |-> NoHash, passwordResetExpires |-> 0],
     now |-> 0,
     nextToken |-> 1,
     issued |-> <<>>,
     used |-> {},
     presented |-> 0,
     requested |-> [e \in {KnownEmail, UnknownEmail} |-> NoResponse],
     resp |-> NoResponse]

AuthIdle == auth = AuthStart(TRUE)

IdleMark ==
    [pc |-> "idle", date |-> 0, students |-> <<>>,
     enrollment |-> [totalClasses |-> 0, attendedClasses |-> 0]]

\* the enrollment of the one enrolled student, never marked, and no
\* Attendance document
AttIdle ==
    att = [enrollment |-> [totalClasses |-> 0, attendedClasses |-> 0,
                           attendancePercentage |-> FZero],
           dates |-> {},
           reqs |-> [r \in Slots |-> IdleMark],
           started |-> 0,
           marks |-> [total |-> 0, present |-> 0],
           status |-> 0]

OtherIdle == BankIdle /\ AutoGradeIdle /\ AuthIdle /\ AttIdle

Init ==
    ProgInit /\ StatIdle /\ PureIdle /\ ConcIdle /\ SubIdle /\ OtherIdle

Next ==
    \/ AddModule
    \/ \E mi \in ModuleIds : AddLecture(mi)
    \/ \E mi \in ModuleIds, li \in LectureIds : RemoveLecture(mi, li)
    \/ \E mi \in ModuleIds : RemoveModule(mi)
    \/ \E s \in Students : Enroll(s)
    \/ \E s \in Students : Unenroll(s)
    \/ \E u \in Users, c \in {CourseId, MissingCourseId} : GetProgress(u, c)
    \/ \E u \in Students, c \in {CourseId, MissingCourseId} : InitializeRoute(u, c)
    \/ \E u \in Students, c \in {CourseId, MissingCourseId},
          m \in ModuleIds, l \in LectureIds : Toggle(u, c, m, l)

Spec == Init /\ [][Next]_vars

(***************************************************************************)
(* SpecStats: calculateProgressStats applied to a course of `total`        *)
(* lectures in two modules and a record with `completed` of them complete  *)
(***************************************************************************)
StatCourse(total) ==
    [modules |->
        <<[_id |-> 1, lectures |-> [i \in 1..(total \div 2) |-> i]],
          [_id |-> 2, lectures |-> [i \in 1..(total - (total \div 2)) |->
                                        (total \div 2) + i]]>>]

StatProgress(completed, total) ==
    LET seeded == initializeProgress(StatCourse(total), "s1", CourseId, 1)
        done(mp) ==
            [mp EXCEPT !.lecturesProgress =
                [i \in 1..Len(mp.lecturesProgress) |->
                    IF mp.lecturesProgress[i].lectureId <= completed
                    THEN FlipLecture(mp.lecturesProgress[i])
                    ELSE mp.lecturesProgress[i]]]
    IN [seeded EXCEPT !.modulesProgress =
            [i \in 1..Len(seeded.modulesProgress) |-> done(seeded.modulesProgress[i])]]

StatInit ==
    /\ statInput \in {[completed |-> c, total |-> t] :
                        t \in 0..MaxStatLectures, c \in 0..MaxStatLectures}
    /\ statInput.completed <= statInput.total
    /\ statResult = NoResult

ComputeStats ==
    /\ statResult = NoResult
    /\ statResult' = calculateProgressStats(
                        StatCourse(statInput.total),
                        StatProgress(statInput.completed, statInput.total))
    /\ UNCHANGED <<statInput, letterInput, letterResult, quizInput, quizResult,
                   progVars, concVars, subVars,
                   otherVars>>

InitStats ==
    ProgInit /\ StatInit /\ PureIdle /\ ConcIdle /\ SubIdle /\ OtherIdle

NextStats == ComputeStats

SpecStats == InitStats /\ [][NextStats]_vars

(***************************************************************************)
(* SpecConc: the progress routes with requests in flight together.  A      *)
(* handler runs to its next await on the Progress collection and then lets *)
(* the others run: Progress.findOne, the save() inside initializeProgress  *)
(* and the save() that ends the toggle are steps of their own.  The course *)
(* and the enrollment do not change while the requests run.                *)
(***************************************************************************)
ConcCourse ==
    [modules |-> <<[_id |-> 1, lectures |-> [i \in 1..MaxLectures |-> i]]>>]

ConcInit ==
    /\ course = ConcCourse
    /\ nextModuleId = 2
    /\ nextLectureId = MaxLectures + 1
    /\ enrolled = Students
    /\ progressDocs = {}
    /\ nextDocId = 1
    /\ resp = Response("none", NULL, 0)
    /\ fresh = [u \in Users |-> FALSE]
    /\ toggledOnce = [u \in Users |-> {}]
    /\ pair = NoPair

ConcUnchanged ==
    UNCHANGED <<course, nextModuleId, nextLectureId, enrolled, fresh, toggledOnce,
                pair, statVars, otherVars, subVars>>

\* res.status(status).json(...): the request in slot r is over
Respond(r, status) ==
    /\ resp' = Response(reqs[r].op, reqs[r].user, status)
    /\ reqs' = [reqs EXCEPT ![r] = IdleRequest]

Await(r, pc, doc) ==
    /\ reqs' = [reqs EXCEPT ![r].pc = pc, ![r].doc = doc]
    /\ UNCHANGED resp

Begin(r, op, user, moduleId, lectureId) ==
    /\ reqs' = [reqs EXCEPT ![r] =
                    [op |-> op, user |-> user, moduleId |-> moduleId,
                     lectureId |-> lectureId, pc |-> "find", doc |-> NoDoc]]
    /\ UNCHANGED resp

Reject(op, user, status) ==
    /\ resp' = Response(op, user, status)
    /\ UNCHANGED reqs

\* GET /course/:courseId up to Progress.findOne
StartGet(r, user, courseId) ==
    /\ reqs[r].pc = "idle"
    /\ IF ~CourseExists(courseId) THEN Reject("get", user, 404)
       ELSE IF Role(user) = "student" /\ ~Enrollment(user, courseId)
       THEN Reject("get", user, 403)
       ELSE Begin(r, "get", user, 0, 0)
    /\ UNCHANGED <<progressDocs, nextDocId, applied>>
    /\ ConcUnchanged

\* POST /initialize/:courseId up to Progress.findOne
StartInitialize(r, user, courseId) ==
    /\ reqs[r].pc = "idle"
    /\ IF ~Enrollment(user, courseId) THEN Reject("initialize", user, 403)
       ELSE Begin(r, "initialize", user, 0, 0)
    /\ UNCHANGED <<progressDocs, nextDocId, applied>>
    /\ ConcUnchanged

\* POST /lecture/.../toggle up to Progress.findOne
StartToggle(r, user, courseId, moduleId, lectureId) ==
    /\ reqs[r].pc = "idle"
    /\ IF ToggleRejection(user, courseId, moduleId, lectureId) # 0
       THEN Reject("toggle", user, ToggleRejection(user, courseId, moduleId, lectureId))
       ELSE Begin(r, "toggle", user, moduleId, lectureId)
    /\ UNCHANGED <<progressDocs, nextDocId, applied>>
    /\ ConcUnchanged

\* Progress.findOne({userId, courseId}) and what each handler does with it
Find(r) ==
    /\ reqs[r].pc = "find"
    /\ LET found == FindProgress(progressDocs, reqs[r].user, CourseId)
       IN IF found = {}
          THEN Await(r, "insert", NoDoc)
          ELSE \E progress \in found :
                  IF reqs[r].op = "toggle"
                  THEN Await(r, "save", progress)
                  ELSE Respond(r, 200)
    /\ UNCHANGED <<progressDocs, nextDocId, applied>>
    /\ ConcUnchanged

\* initializeProgress: new Progress({...}).save(); a second document for the
\* pair is refused by the unique index and the handler's catch answers 500
Insert(r) ==
    /\ reqs[r].pc = "insert"
    /\ LET progress == initializeProgress(course, reqs[r].user, CourseId, nextDocId)
       IN IF ProgressIndexConflict(progressDocs, progress)
          THEN /\ Respond(r, 500)
               /\ UNCHANGED <<progressDocs, nextDocId>>
          ELSE /\ progressDocs' = progressDocs \cup {progress}
               /\ nextDocId' = nextDocId + 1
               /\ IF reqs[r].op = "toggle" THEN Await(r, "save", progress)
                  ELSE IF reqs[r].op = "initialize" THEN Respond(r, 201)
                  ELSE Respond(r, 200)
    /\ UNCHANGED applied
    /\ ConcUnchanged

\* save() of a document that was loaded: the paths the handler changed are
\* written over the stored document, modulesProgress (markModified) as a
\* whole, and the other paths stay as they are stored
SaveModified(stored, loaded, after) ==
    [stored EXCEPT
        !.modulesProgress = after.modulesProgress,
        !.completedLecturesCount =
            IF after.completedLecturesCount # loaded.completedLecturesCount
            THEN after.completedLecturesCount ELSE @,
        !.totalLecturesCount =
            IF after.totalLecturesCount # loaded.totalLecturesCount
            THEN after.totalLecturesCount ELSE @,
        !.progressPercentage =
            IF after.progressPercentage # loaded.progressPercentage
            THEN after.progressPercentage ELSE @,
        !.completed =
            IF after.completed # loaded.completed THEN after.completed ELSE @,
        !.completedAt =
            IF after.completedAt # loaded.completedAt \/ after.completedAt = DATE
            THEN after.completedAt ELSE @]

\* the toggle from the document it holds to its answer
Save(r) ==
    /\ reqs[r].pc = "save"
    /\ LET loaded == reqs[r].doc
           after == ToggleLecture(course, loaded, reqs[r].moduleId, reqs[r].lectureId)
           stored == {d \in progressDocs : d._id = loaded._id}
       IN IF ~ProgressValid(after) \/ stored = {}
          THEN /\ Respond(r, 500)
               /\ UNCHANGED <<progressDocs, applied>>
          ELSE /\ progressDocs' =
                    (progressDocs \ stored)
                        \cup {SaveModified(d, loaded, after) : d \in stored}
               /\ applied' =
                    LET t == <<reqs[r].user, reqs[r].lectureId>>
                    IN IF t \in applied THEN applied \ {t} ELSE applied \cup {t}
               /\ Respond(r, 200)
    /\ UNCHANGED nextDocId
    /\ ConcUnchanged

InitConc ==
    ConcInit /\ StatIdle /\ PureIdle /\ ConcIdle /\ SubIdle /\ OtherIdle

NextConc ==
    \/ \E r \in Slots, u \in Users : StartGet(r, u, CourseId)
    \/ \E r \in Slots, u \in Students : StartInitialize(r, u, CourseId)
    \/ \E r \in Slots, u \in Students, m \in ModuleIds, l \in LectureIds :
          StartToggle(r, u, CourseId, m, l)
    \/ \E r \in Slots : Find(r)
    \/ \E r \in Slots : Insert(r)
    \/ \E r \in Slots : Save(r)

SpecConc == InitConc /\ [][NextConc]_vars

(***************************************************************************)
(* Submissions: the Submission schema, its pre-save hooks, autoGradeQuiz   *)
(* and the create / grade / resubmit handlers.  A percentage is a double.  *)
(***************************************************************************)
\* the integer part of a double 0 <= x < 2^18
FFloor(x) == IF x.a = 0 \/ x.e < 0 THEN 0 ELSE x.a \div Pow2(18 - x.e)

\* x >= k for a double x >= 0 and an integer k >= 0
FAtLeast(x, k) == FFloor(x) >= k

\* x <= k for a double x >= 0 and an integer k >= 1
FAtMost(x, k) ==
    \/ FFloor(x) < k
    \/ /\ FFloor(x) = k
       /\ x.a % Pow2(18 - x.e) = 0 /\ x.b = 0 /\ x.c = 0

\* (n / d) * k as the handlers compute it
Scaled(n, d, k) == FMul(FDiv(n, d), k)

AssignmentId == "a1"
MissingAssignmentId == "a0"
Instructor == "i1"
OtherInstructor == "i2"

\* JavaScript values: a number, a string of digits, null and undefined
Num(n) == [t |-> "number", v |-> n]
Str(n) == [t |-> "string", v |-> n]
JsNull == [t |-> "null", v |-> 0]
JsUndefined == [t |-> "undefined", v |-> 0]

\* x === y
StrictEquals(x, y) == x.t = y.t /\ x.v = y.v

\* the one assignment: two multiple-choice questions and a written one
Assignment ==
    [_id |-> AssignmentId,
     instructor |-> Instructor,
     totalPoints |-> TotalPoints,
     questions |->
        <<[_id |-> 1, type |-> "multiple-choice", points |-> Num(1),
           correctOption |-> Num(0)],
          [_id |-> 2, type |-> "multiple-choice", points |-> Num(2),
           correctOption |-> Num(1)],
          [_id |-> 3, type |-> "written", points |-> Num(1),
           correctOption |-> JsUndefined]>>]

\* Assignment.findById
FindAssignment(assignmentId) == assignmentId = AssignmentId

\* questionsMap.get(questionId): the position of the question, 0 if none
QuestionIndex(questions, questionId) ==
    IF \E i \in 1..Len(questions) : questions[i]._id = questionId
    THEN CHOOSE i \in 1..Len(questions) : questions[i]._id = questionId
    ELSE 0

\* a grader that takes every answer whose question exists
Gradable_AnyType(assignment, studentAnswer) ==
    QuestionIndex(assignment.questions, studentAnswer.questionId) # 0

\* an answer that autoGradeQuiz grades
Gradable(assignment, studentAnswer) ==
    LET qi == QuestionIndex(assignment.questions, studentAnswer.questionId)
    IN qi # 0 /\ assignment.questions[qi].type = "multiple-choice"

\* the question an answer is for
AnswerQuestion(assignment, studentAnswer) ==
    assignment.questions[QuestionIndex(assignment.questions,
                                       studentAnswer.questionId)]

\* pointsForQuestion = question.points || 1
AnswerPoints(assignment, studentAnswer) ==
    LET points == AnswerQuestion(assignment, studentAnswer).points
    IN IF points.t = "number" /\ points.v # 0 THEN points.v ELSE 1

\* isCorrect
AnswerCorrect(assignment, studentAnswer) ==
    /\ studentAnswer.answer # JsNull
    /\ studentAnswer.answer # JsUndefined
    /\ StrictEquals(studentAnswer.answer,
                    AnswerQuestion(assignment, studentAnswer).correctOption)

\* a total that counts the points of a question once, however many answers
\* the list holds for it
RECURSIVE TotalQuestionPoints_Once(_, _)
TotalQuestionPoints_Once(assignment, studentAnswers) ==
    IF studentAnswers = <<>> THEN 0
    ELSE (IF /\ Gradable(assignment, Head(studentAnswers))
             /\ \A i \in 2..Len(studentAnswers) :
                    studentAnswers[i].questionId # Head(studentAnswers).questionId
          THEN AnswerPoints(assignment, Head(studentAnswers)) ELSE 0)
         + TotalQuestionPoints_Once(assignment, Tail(studentAnswers))

RECURSIVE TotalQuestionPoints(_, _)
TotalQuestionPoints(assignment, studentAnswers) ==
    IF studentAnswers = <<>> THEN 0
    ELSE (IF Gradable(assignment, Head(studentAnswers))
          THEN AnswerPoints(assignment, Head(studentAnswers)) ELSE 0)
         + TotalQuestionPoints(assignment, Tail(studentAnswers))

RECURSIVE EarnedQuestionPoints(_, _)
EarnedQuestionPoints(assignment, studentAnswers) ==
    IF studentAnswers = <<>> THEN 0
    ELSE (IF /\ Gradable(assignment, Head(studentAnswers))
             /\ AnswerCorrect(assignment, Head(studentAnswers))
          THEN AnswerPoints(assignment, Head(studentAnswers)) ELSE 0)
         + EarnedQuestionPoints(assignment, Tail(studentAnswers))

\* the entry autoGradeQuiz pushes for a graded answer
GradedAnswer(assignment, studentAnswer) ==
    LET isCorrect == AnswerCorrect(assignment, studentAnswer)
        pointsForQuestion == AnswerPoints(assignment, studentAnswer)
    IN [questionId |-> studentAnswer.questionId,
        studentAnswer |-> studentAnswer.answer,
        correctAnswer |-> AnswerQuestion(assignment, studentAnswer).correctOption,
        isCorrect |-> isCorrect,
        points |-> pointsForQuestion,
        earnedPoints |-> IF isCorrect THEN pointsForQuestion ELSE 0]

RECURSIVE GradedAnswers(_, _)
GradedAnswers(assignment, studentAnswers) ==
    IF studentAnswers = <<>> THEN <<>>
    ELSE (IF Gradable(assignment, Head(studentAnswers))
          THEN <<GradedAnswer(assignment, Head(studentAnswers))>> ELSE <<>>)
         \o GradedAnswers(assignment, Tail(studentAnswers))

\* a grader that returns the raw sum of question points
autoGradeQuiz_RawPoints(assignment, studentAnswers) ==
    LET totalQuestionPoints == TotalQuestionPoints(assignment, studentAnswers)
        earnedQuestionPoints == EarnedQuestionPoints(assignment, studentAnswers)
    IN [totalPoints |-> totalQuestionPoints,
        earnedPoints |-> FDiv(earnedQuestionPoints, 1),
        percentage |->
            IF totalQuestionPoints > 0
            THEN Scaled(earnedQuestionPoints, totalQuestionPoints, 100)
            ELSE FZero,
        gradedAnswers |-> GradedAnswers(assignment, studentAnswers)]

autoGradeQuiz(assignment, studentAnswers) ==
    LET totalQuestionPoints == TotalQuestionPoints(assignment, studentAnswers)
        earnedQuestionPoints == EarnedQuestionPoints(assignment, studentAnswers)
    IN [totalPoints |-> assignment.totalPoints,
        earnedPoints |->
            IF totalQuestionPoints > 0
            THEN Scaled(earnedQuestionPoints, totalQuestionPoints,
                        assignment.totalPoints)
            ELSE FZero,
        percentage |->
            IF totalQuestionPoints > 0
            THEN Scaled(earnedQuestionPoints, totalQuestionPoints, 100)
            ELSE FZero,
        gradedAnswers |-> GradedAnswers(assignment, studentAnswers)]

\* a mapping whose thresholds are exclusive
getLetterGrade_Exclusive(percentage) ==
    IF FFloor(percentage) > 97 THEN "A+"
    ELSE IF FFloor(percentage) > 93 THEN "A"
    ELSE IF FFloor(percentage) > 90 THEN "A-"
    ELSE IF FFloor(percentage) > 87 THEN "B+"
    ELSE IF FFloor(percentage) > 83 THEN "B"
    ELSE IF FFloor(percentage) > 80 THEN "B-"
    ELSE IF FFloor(percentage) > 77 THEN "C+"
    ELSE IF FFloor(percentage) > 73 THEN "C"
    ELSE IF FFloor(percentage) > 70 THEN "C-"
    ELSE IF FFloor(percentage) > 67 THEN "D+"
    ELSE IF FFloor(percentage) > 60 THEN "D"
    ELSE "F"

\* getLetterGrade of the submission routes
getLetterGrade(percentage) ==
    IF FAtLeast(percentage, 97) THEN "A+"
    ELSE IF FAtLeast(percentage, 93) THEN "A"
    ELSE IF FAtLeast(percentage, 90) THEN "A-"
    ELSE IF FAtLeast(percentage, 87) THEN "B+"
    ELSE IF FAtLeast(percentage, 83) THEN "B"
    ELSE IF FAtLeast(percentage, 80) THEN "B-"
    ELSE IF FAtLeast(percentage, 77) THEN "C+"
    ELSE IF FAtLeast(percentage, 73) THEN "C"
    ELSE IF FAtLeast(percentage, 70) THEN "C-"
    ELSE IF FAtLeast(percentage, 67) THEN "D+"
    ELSE IF FAtLeast(percentage, 60) THEN "D"
    ELSE "F"

\* a hook that leaves the grade as the handler set it
AutoLetterGrade_Skipped(grade) == grade

\* submissionSchema.pre('save'): auto letter grade
AutoLetterGrade(grade) ==
    IF grade = NoGrade THEN grade
    ELSE LET p == grade.percentage
         IN [grade EXCEPT !.letterGrade =
                IF FAtLeast(p, 97) THEN "A+"
                ELSE IF FAtLeast(p, 93) THEN "A"
                ELSE IF FAtLeast(p, 90) THEN "A-"
                ELSE IF FAtLeast(p, 87) THEN "B+"
                ELSE IF FAtLeast(p, 83) THEN "B"
                ELSE IF FAtLeast(p, 80) THEN "B-"
                ELSE IF FAtLeast(p, 77) THEN "C+"
                ELSE IF FAtLeast(p, 73) THEN "C"
                ELSE IF FAtLeast(p, 70) THEN "C-"
                ELSE IF FAtLeast(p, 67) THEN "D+"
                ELSE IF FAtLeast(p, 60) THEN "D"
                ELSE "F"]

\* the schema validators run by save(): grade.percentage min 0, max 100
SubmissionValid(d) == d.grade = NoGrade \/ FAtMost(d.grade.percentage, 100)

\* the collection without its unique index
SubmissionIndexConflict_None(docs, d) == FALSE

\* submissionSchema.index({assignment: 1, student: 1}, {unique: true})
SubmissionIndexConflict(docs, d) ==
    \E x \in docs :
        x._id # d._id /\ x.assignment = d.assignment /\ x.student = d.student

\* Submission.findOne({assignment, student}): the documents it may return
FindSubmission(docs, assignmentId, student) ==
    {d \in docs : d.assignment = assignmentId /\ d.student = student}

\* the answer sheets a quiz submission may carry
RECURSIVE Sheets(_)
Sheets(n) ==
    IF n = 0 THEN {<<>>}
    ELSE Sheets(n - 1) \cup
         {Append(s, [questionId |-> q, answer |-> Num(a)]) :
            s \in {t \in Sheets(n - 1) : Len(t) = n - 1}, q \in {1, 2}, a \in {0, 1}}

CreateBodies ==
    {[assignmentType |-> "quiz", hasAnswers |-> TRUE, answers |-> s,
      submissionText |-> NULL, attachments |-> 0] : s \in Sheets(MaxAnswers)}
    \cup {[assignmentType |-> "quiz", hasAnswers |-> FALSE, answers |-> <<>>,
           submissionText |-> NULL, attachments |-> 0]}
    \cup {[assignmentType |-> "homework", hasAnswers |-> FALSE, answers |-> <<>>,
           submissionText |-> t, attachments |-> n] :
            t \in {NULL, "t1"}, n \in 0..1}

\* submissionText undefined or a text, attachments undefined or one file
ResubmitBodies ==
    {[submissionText |-> t, hasAttachments |-> h, attachments |-> IF h THEN 1 ELSE 0] :
        t \in {"t2", NULL}, h \in {FALSE}}

GradePoints == {60, 101}

SubRespond(r, status) ==
    /\ resp' = Response(subReqs[r].op, subReqs[r].user, status)
    /\ subReqs' = [subReqs EXCEPT ![r] = IdleSubRequest]

SubReject(op, user, status) ==
    /\ resp' = Response(op, user, status)
    /\ UNCHANGED subReqs

SubStatic == UNCHANGED <<pastDue, allowLate>>

SubRest ==
    UNCHANGED <<course, nextModuleId, nextLectureId, enrolled, progressDocs,
                nextDocId, fresh, toggledOnce, pair, statVars, otherVars, concVars>>

\* the assignment's dueDate passes
DueDatePasses ==
    /\ ~pastDue
    /\ pastDue' = TRUE
    /\ UNCHANGED <<submissions, nextSubId, subReqs, allowLate, resubmits, resp>>
    /\ SubRest

\* a create handler that never grades
SubmissionData_Ungraded(user, body, id, isLate) ==
    [_id |-> id,
     assignment |-> AssignmentId,
     student |-> user,
     submissionText |-> IF body.assignmentType = "quiz" THEN NULL
                        ELSE body.submissionText,
     attachments |-> IF body.assignmentType = "quiz" THEN 0 ELSE body.attachments,
     isLate |-> isLate,
     status |-> "submitted",
     resubmissionCount |-> 0,
     history |-> <<>>,
     grade |-> NoGrade]

\* the submissionData the create handler builds from the request body
SubmissionData(user, body, id, isLate) ==
    LET graded == body.assignmentType = "quiz" /\ autoGrade
        gradingResult == autoGradeQuiz(Assignment, body.answers)
    IN [_id |-> id,
        assignment |-> AssignmentId,
        student |-> user,
        submissionText |-> IF body.assignmentType = "quiz" THEN NULL
                           ELSE body.submissionText,
        attachments |-> IF body.assignmentType = "quiz" THEN 0 ELSE body.attachments,
        isLate |-> isLate,
        status |-> IF graded THEN "graded" ELSE "submitted",
        resubmissionCount |-> 0,
        history |-> <<>>,
        grade |-> IF graded
                  THEN [points |-> gradingResult.earnedPoints,
                        percentage |-> gradingResult.percentage,
                        letterGrade |-> NULL]
                  ELSE NoGrade]

\* the request body the create handler turns away
CreateBodyRefused(body) ==
    IF body.assignmentType = "quiz" THEN ~body.hasAnswers
    ELSE body.submissionText = NULL /\ body.attachments = 0

\* POST /api/submissions/:assignmentId up to save(): Assignment.findById,
\* Submission.findOne for the pair, and the document built when there is none
StartCreate(r, user, assignmentId, body) ==
    /\ subReqs[r].pc = "idle"
    /\ IF ~FindAssignment(assignmentId) THEN SubReject("create", user, 404)
       ELSE IF FindSubmission(submissions, assignmentId, user) # {}
       THEN SubReject("create", user, 400)
       ELSE IF CreateBodyRefused(body) THEN SubReject("create", user, 400)
       ELSE /\ subReqs' = [subReqs EXCEPT ![r] =
                    [op |-> "create", user |-> user, pc |-> "save", body |-> NoDoc,
                     doc |-> SubmissionData(user, body, 0, pastDue)]]
            /\ UNCHANGED resp
    /\ UNCHANGED <<submissions, nextSubId, resubmits>>
    /\ SubStatic /\ SubRest

\* new Submission(submissionData).save(): validation, the pre-save hooks,
\* the insert; a second document for the pair is refused by the unique index
CreateSave(r) ==
    /\ subReqs[r].pc = "save"
    /\ subReqs[r].op = "create"
    /\ LET data == subReqs[r].doc
           submission == [data EXCEPT !._id = nextSubId,
                                      !.grade = AutoLetterGrade(data.grade)]
       IN IF ~SubmissionValid(data) \/ SubmissionIndexConflict(submissions, submission)
          THEN /\ SubRespond(r, 500)
               /\ UNCHANGED <<submissions, nextSubId>>
          ELSE /\ submissions' = submissions \cup {submission}
               /\ nextSubId' = nextSubId + 1
               /\ SubRespond(r, 201)
    /\ UNCHANGED resubmits
    /\ SubStatic /\ SubRest

\* Submission.findById(id)
FindSubmissionById(docs, id) == {d \in docs : d._id = id}

\* PUT /api/submissions/:id/grade up to save()
StartGrade(r, user, id, points) ==
    /\ subReqs[r].pc = "idle"
    /\ LET found == FindSubmissionById(submissions, id)
       IN IF found = {} THEN SubReject("grade", user, 404)
          ELSE IF Assignment.instructor # user THEN SubReject("grade", user, 403)
          ELSE \E submission \in found :
                /\ subReqs' = [subReqs EXCEPT ![r] =
                        [op |-> "grade", user |-> user, pc |-> "save",
                         body |-> [points |-> points], doc |-> submission]]
                /\ UNCHANGED resp
    /\ UNCHANGED <<submissions, nextSubId, resubmits>>
    /\ SubStatic /\ SubRest

\* save() of a graded submission: validation, the hooks, and the write of
\* the paths that changed: grade, assigned as an object, is written as a
\* whole with the letter the hook gave it; status when it differs
GradeSave(r) ==
    /\ subReqs[r].pc = "save"
    /\ subReqs[r].op = "grade"
    /\ LET loaded == subReqs[r].doc
           points == subReqs[r].body.points
           graded == [loaded EXCEPT
                        !.grade = [points |-> FDiv(points, 1),
                                   percentage |->
                                       Scaled(points, Assignment.totalPoints, 100),
                                   letterGrade |-> NULL],
                        !.status = "graded"]
           stored == FindSubmissionById(submissions, loaded._id)
       IN IF ~SubmissionValid(graded) \/ stored = {}
          THEN /\ SubRespond(r, 500)
               /\ UNCHANGED submissions
          ELSE /\ submissions' =
                    (submissions \ stored)
                        \cup {[d EXCEPT !.grade = AutoLetterGrade(graded.grade),
                                        !.status = IF graded.status # loaded.status
                                                   THEN graded.status ELSE @] :
                              d \in stored}
               /\ SubRespond(r, 200)
    /\ UNCHANGED <<nextSubId, resubmits>>
    /\ SubStatic /\ SubRest

\* the submission as the resubmit handler leaves it in memory
Resubmitted(loaded, user, body, now) ==
    [loaded EXCEPT
        !.history = Append(@, [submissionText |-> loaded.submissionText,
                               updatedBy |-> user]),
        !.submissionText = IF body.submissionText # NULL
                           THEN body.submissionText ELSE @,
        !.attachments = IF body.hasAttachments THEN body.attachments ELSE @,
        !.resubmissionCount = @ + 1,
        !.status = "resubmitted",
        !.isLate = now]

\* PUT /api/submissions/:id/resubmit up to save()
StartResubmit(r, user, id, body) ==
    /\ subReqs[r].pc = "idle"
    /\ resubmits > 0
    /\ LET found == FindSubmissionById(submissions, id)
       IN IF found = {}
          THEN SubReject("resubmit", user, 404) /\ UNCHANGED resubmits
          ELSE \E submission \in found :
                IF submission.student # user
                THEN SubReject("resubmit", user, 403) /\ UNCHANGED resubmits
                ELSE IF ~allowLate /\ submission.isLate
                THEN SubReject("resubmit", user, 400) /\ UNCHANGED resubmits
                ELSE /\ subReqs' = [subReqs EXCEPT ![r] =
                            [op |-> "resubmit", user |-> user, pc |-> "save",
                             body |-> [body |-> body, now |-> pastDue],
                             doc |-> submission]]
                     /\ resubmits' = resubmits - 1
                     /\ UNCHANGED resp
    /\ UNCHANGED <<submissions, nextSubId>>
    /\ SubStatic /\ SubRest

\* submissionSchema.pre('save'): track version history
TrackHistory(loaded, after) ==
    IF after.submissionText # loaded.submissionText
    THEN Append(after.history, [submissionText |-> after.submissionText,
                                updatedBy |-> NULL])
    ELSE after.history

\* save() of a resubmitted submission: validation, the hooks, and the write
\* of the paths that changed; the new history entries are pushed onto the
\* stored array
ResubmitSave(r) ==
    /\ subReqs[r].pc = "save"
    /\ subReqs[r].op = "resubmit"
    /\ LET loaded == subReqs[r].doc
           after == Resubmitted(loaded, subReqs[r].user, subReqs[r].body.body,
                                subReqs[r].body.now)
           grade == AutoLetterGrade(after.grade)
           history == TrackHistory(loaded, after)
           pushed == SubSeq(history, Len(loaded.history) + 1, Len(history))
           stored == FindSubmissionById(submissions, loaded._id)
       IN IF ~SubmissionValid(after) \/ stored = {}
          THEN /\ SubRespond(r, 500)
               /\ UNCHANGED submissions
          ELSE /\ submissions' =
                    (submissions \ stored) \cup
                    {[d EXCEPT
                        !.submissionText =
                            IF after.submissionText # loaded.submissionText
                            THEN after.submissionText ELSE @,
                        !.attachments =
                            IF after.attachments # loaded.attachments
                            THEN after.attachments ELSE @,
                        !.resubmissionCount = after.resubmissionCount,
                        !.status = IF after.status # loaded.status
                                   THEN after.status ELSE @,
                        !.isLate = IF after.isLate # loaded.isLate
                                   THEN after.isLate ELSE @,
                        !.grade = IF grade # loaded.grade THEN grade ELSE @,
                        !.history = @ \o pushed] : d \in stored}
               /\ SubRespond(r, 200)
    /\ UNCHANGED <<nextSubId, resubmits>>
    /\ SubStatic /\ SubRest

(***************************************************************************)
(* SpecSub: the submission routes with requests in flight together         *)
(***************************************************************************)
SubStudents == {"s1"}
OtherStudent == "s2"
SubmissionIds == 1..2

SubInit ==
    /\ submissions = {}
    /\ nextSubId = 1
    /\ subReqs = [r \in Slots |-> IdleSubRequest]
    /\ pastDue = FALSE
    /\ allowLate \in BOOLEAN
    /\ resubmits = MaxResubmits

InitSub ==
    ProgInit /\ StatIdle /\ PureIdle /\ ConcIdle /\ SubInit /\ OtherIdle

NextSub ==
    \/ DueDatePasses
    \/ \E r \in Slots, u \in SubStudents, a \in {AssignmentId, MissingAssignmentId},
          body \in CreateBodies : StartCreate(r, u, a, body)
    \/ \E r \in Slots : CreateSave(r)
    \/ \E r \in Slots, u \in {Instructor, OtherInstructor}, id \in SubmissionIds,
          points \in GradePoints : StartGrade(r, u, id, points)
    \/ \E r \in Slots : GradeSave(r)
    \/ \E r \in Slots, u \in SubStudents \cup {OtherStudent}, id \in SubmissionIds,
          body \in ResubmitBodies : StartResubmit(r, u, id, body)
    \/ \E r \in Slots : ResubmitSave(r)

SpecSub == InitSub /\ [][NextSub]_vars

(***************************************************************************)
(* SpecAuto: the submission routes on an assignment that grades quizzes    *)
(* automatically or not                                                    *)
(***************************************************************************)
AutoInit ==
    /\ submissions = {}
    /\ nextSubId = 1
    /\ subReqs = [r \in Slots |-> IdleSubRequest]
    /\ pastDue = FALSE
    /\ allowLate = TRUE
    /\ resubmits = MaxResubmits
    /\ autoGrade \in BOOLEAN

InitAuto ==
    ProgInit /\ StatIdle /\ PureIdle /\ ConcIdle /\ AutoInit /\ BankIdle
        /\ AuthIdle /\ AttIdle

SpecAuto == InitAuto /\ [][NextSub]_vars

(***************************************************************************)
(* SpecResub: resubmit requests in flight together on one stored           *)
(* submission.                                                             *)
(***************************************************************************)
\* a homework submission as POST /api/submissions/:assignmentId stored it
StoredHomework ==
    [SubmissionData("s1", [assignmentType |-> "homework", hasAnswers |-> FALSE,
                           answers |-> <<>>, submissionText |-> "t1",
                           attachments |-> 0], 1, FALSE)
        EXCEPT !.grade = AutoLetterGrade(@)]

ResubInit ==
    /\ submissions = {StoredHomework}
    /\ nextSubId = 2
    /\ subReqs = [r \in Slots |-> IdleSubRequest]
    /\ pastDue = FALSE
    /\ allowLate \in BOOLEAN
    /\ resubmits = MaxInterleaved

InitResub ==
    ProgInit /\ StatIdle /\ PureIdle /\ ConcIdle /\ ResubInit /\ OtherIdle

NextResub ==
    \/ DueDatePasses
    \/ \E r \in Slots, u \in SubStudents \cup {OtherStudent}, id \in SubmissionIds,
          body \in ResubmitBodies : StartResubmit(r, u, id, body)
    \/ \E r \in Slots : ResubmitSave(r)

SpecResub == InitResub /\ [][NextResub]_vars

(***************************************************************************)
(* SpecReset: the progress routes with the reset, one request at a time,   *)
(* called by a student and by an admin on a course that does not change    *)
(***************************************************************************)
Callers == Students \cup {Admin}

\* DELETE /api/progress/course/:courseId
DeleteProgress(user, courseId) ==
    /\ nextDocId <= MaxDocs
    /\ LET found == FindProgress(progressDocs, user, courseId)
       IN IF found = {}
          THEN /\ Answer("delete", user, 404)
               /\ UNCHANGED <<progressDocs, fresh, toggledOnce>>
          ELSE \E progress \in found :
                /\ progressDocs' = progressDocs \ {progress}
                /\ fresh' = [u \in Users |-> IF u = user THEN FALSE ELSE fresh[u]]
                /\ toggledOnce' =
                        [u \in Users |-> IF u = user THEN {} ELSE toggledOnce[u]]
                /\ Answer("delete", user, 200)
    /\ UNCHANGED <<course, nextModuleId, nextLectureId, enrolled, nextDocId,
                   statVars, otherVars, concVars, subVars>>

ResetInit ==
    /\ course = ConcCourse
    /\ nextModuleId = 2
    /\ nextLectureId = MaxLectures + 1
    /\ enrolled = {}
    /\ progressDocs = {}
    /\ nextDocId = 1
    /\ resp = Response("none", NULL, 0)
    /\ fresh = [u \in Users |-> FALSE]
    /\ toggledOnce = [u \in Users |-> {}]
    /\ pair = NoPair

InitReset ==
    ResetInit /\ StatIdle /\ PureIdle /\ ConcIdle /\ SubIdle /\ OtherIdle

NextReset ==
    \/ \E s \in Students : Enroll(s)
    \/ \E s \in Students : Unenroll(s)
    \/ \E u \in Callers, c \in {CourseId, MissingCourseId} : GetProgress(u, c)
    \/ \E u \in Students, c \in {CourseId, MissingCourseId} : InitializeRoute(u, c)
    \/ \E u \in Students, c \in {CourseId, MissingCourseId},
          m \in ModuleIds, l \in LectureIds : Toggle(u, c, m, l)
    \/ \E u \in Callers, c \in {CourseId, MissingCourseId} : DeleteProgress(u, c)

SpecReset == InitReset /\ [][NextReset]_vars

(***************************************************************************)
(* SpecLetter: the two letter-grade mappings as pure functions.  The input *)
(* is the percentage num / den, or the double just below it.               *)
(***************************************************************************)
\* the double just below a double x > 0
FPred(x) ==
    IF x.c > 0 THEN [x EXCEPT !.c = x.c - 1]
    ELSE IF x.b > 0 THEN [x EXCEPT !.c = Pow2(16) - 1, !.b = x.b - 1]
    ELSE IF x.a > Pow2(18)
    THEN [x EXCEPT !.c = Pow2(16) - 1, !.b = Pow2(18) - 1, !.a = x.a - 1]
    ELSE [a |-> Pow2(19) - 1, b |-> Pow2(18) - 1, c |-> Pow2(16) - 1, e |-> x.e - 1]

\* the double a handler holds for the input
Percentage(input) ==
    IF input.below THEN FPred(FDiv(input.num, input.den))
    ELSE FDiv(input.num, input.den)

LetterInit ==
    /\ letterInput \in {[num |-> n, den |-> 10, below |-> b] :
                          n \in 0..MaxTenths, b \in BOOLEAN}
    /\ letterInput.below => letterInput.num > 0
    /\ letterResult = [helper |-> NULL, hook |-> NULL]

LetterRest == UNCHANGED <<letterInput, statInput, statResult, quizInput,
                          quizResult, progVars, concVars, subVars,
                   otherVars>>

\* a call of getLetterGrade(percentage)
CallGetLetterGrade ==
    /\ letterResult.helper = NULL
    /\ letterResult' =
            [letterResult EXCEPT !.helper = getLetterGrade(Percentage(letterInput))]
    /\ LetterRest

\* the pre-save hook run on a document whose grade holds the percentage
RunLetterHook ==
    /\ letterResult.hook = NULL
    /\ letterResult' =
            [letterResult EXCEPT !.hook =
                AutoLetterGrade([points |-> FZero,
                                 percentage |-> Percentage(letterInput),
                                 letterGrade |-> NULL]).letterGrade]
    /\ LetterRest

InitLetter ==
    ProgInit /\ StatIdle /\ LetterInit /\ QuizIdle /\ ConcIdle /\ SubIdle /\ OtherIdle

NextLetter == CallGetLetterGrade \/ RunLetterHook

SpecLetter == InitLetter /\ [][NextLetter]_vars

(***************************************************************************)
(* SpecQuiz: autoGradeQuiz as a pure function of an assignment and the     *)
(* answers of a request body.                                              *)
(***************************************************************************)
\* question.points: null, or a number the question routes can store
QuestionPoints == {JsNull, Num(0), Num(1), Num(2), Num(9), Num(11)}

QuizQuestionKinds ==
    {[type |-> "multiple-choice", points |-> p, correctOption |-> c] :
        p \in QuestionPoints, c \in {Num(0), Num(1)}}
    \cup {[type |-> "written", points |-> Num(1), correctOption |-> JsUndefined]}

\* assignment.questions: the _id of a question is its position
QuizQuestions ==
    UNION {{[i \in 1..n |-> [_id |-> i, type |-> k[i].type, points |-> k[i].points,
                             correctOption |-> k[i].correctOption]] :
              k \in [1..n -> QuizQuestionKinds]} : n \in 0..MaxQuestions}

\* a questionId no question of the assignment has
UnknownQuestionId == MaxQuestions + 1

\* req.body.answers
QuizAnswers ==
    UNION {[1..n -> {[questionId |-> q, answer |-> a] :
                        q \in 1..UnknownQuestionId,
                        a \in {Num(0), Num(1), Str(1), JsNull, JsUndefined}}] :
             n \in 0..MaxQuizAnswers}

QuizInit ==
    /\ quizInput \in {[totalPoints |-> t, questions |-> q, answers |-> a] :
                        t \in {TotalPoints, TotalPoints - 25},
                        q \in QuizQuestions, a \in QuizAnswers}
    /\ quizResult = NoResult

\* a call of autoGradeQuiz(assignment, answers)
GradeQuiz ==
    /\ quizResult = NoResult
    /\ quizResult' = autoGradeQuiz(quizInput, quizInput.answers)
    /\ UNCHANGED <<quizInput, statInput, statResult, letterInput, letterResult,
                   progVars, concVars, subVars,
                   otherVars>>

InitQuiz ==
    ProgInit /\ StatIdle /\ LetterIdle /\ QuizInit /\ ConcIdle /\ SubIdle /\ OtherIdle

NextQuiz == GradeQuiz

SpecQuiz == InitQuiz /\ [][NextQuiz]_vars

(***************************************************************************)
(* SpecBank: the assignment routes that write the question bank of one     *)
(* assignment.  options is the length of the options array.                *)
(***************************************************************************)
\* a question as a request body gives it: a field is a value or undefined
McQuestionBodies ==
    {[type |-> "multiple-choice", options |-> o, correctOption |-> c,
      points |-> p, expectedAnswer |-> FALSE] :
        o \in {JsUndefined, Num(1), Num(2)},
        c \in {JsUndefined, Num(0), Num(2)},
        p \in {JsUndefined, Num(0)}}

WrittenQuestionBodies ==
    {[type |-> "written", options |-> JsUndefined, correctOption |-> JsUndefined,
      points |-> p, expectedAnswer |-> e] :
        p \in {JsUndefined}, e \in BOOLEAN}

QuestionBodies == McQuestionBodies \cup WrittenQuestionBodies

\* req.body.questions: undefined, or an array of questions
QuestionArrays ==
    UNION {[1..n -> QuestionBodies] : n \in 0..MaxBodyQuestions}

\* the body of PUT /:id/questions/:questionId; a type of NULL is undefined
QuestionUpdates ==
    {[type |-> t, options |-> o, correctOption |-> c, points |-> p,
      expectedAnswer |-> e] :
        t \in {NULL, "multiple-choice", "written"},
        o \in {JsUndefined, Num(1)},
        c \in {JsUndefined, Num(2)},
        p \in {JsUndefined, Num(0)},
        e \in BOOLEAN}

\* an _id no question of the bank has
FreshQuestionId(questions) ==
    CHOOSE i \in 1..(Len(questions) + 1) :
        \A j \in 1..Len(questions) : questions[j]._id # i

\* questionSchema applied to a question object: options defaults to an
\* empty array and points to 1
CastQuestion(q, id) ==
    [_id |-> id,
     type |-> q.type,
     options |-> IF q.options = JsUndefined THEN 0 ELSE q.options.v,
     correctOption |-> q.correctOption,
     points |-> IF q.points = JsUndefined THEN Num(1) ELSE q.points,
     expectedAnswer |-> q.expectedAnswer]

\* the questions array of a body as the schema casts it
RECURSIVE CastQuestions(_, _)
CastQuestions(body, questions) ==
    IF body = <<>> THEN questions
    ELSE CastQuestions(Tail(body),
            Append(questions, CastQuestion(Head(body), FreshQuestionId(questions))))

\* the validators of questionSchema: correctOption is required of a
\* multiple-choice question and expectedAnswer of a written one
QuestionValid(q) ==
    /\ q.type = "multiple-choice" => q.correctOption.t = "number"
    /\ q.type = "written" => q.expectedAnswer

QuestionsValid(questions) ==
    \A i \in 1..Len(questions) : QuestionValid(questions[i])

BankRest ==
    UNCHANGED <<course, nextModuleId, nextLectureId, enrolled, progressDocs,
                nextDocId, fresh, toggledOnce, pair, statVars, concVars, subVars,
                autoGrade, auth, att>>

BankRespond(op, user, status) == resp' = Response(op, user, status)

\* POST /api/assignments with the course of Instructor
CreateAssignment(user, hasQuestions, questions) ==
    /\ ~bank.created
    /\ IF user # Instructor
       THEN BankRespond("createAssignment", user, 403) /\ UNCHANGED bank
       ELSE LET stored == IF hasQuestions THEN CastQuestions(questions, <<>>)
                          ELSE <<>>
            IN IF ~QuestionsValid(stored)
               THEN BankRespond("createAssignment", user, 500) /\ UNCHANGED bank
               ELSE /\ bank' = [created |-> TRUE, questions |-> stored]
                    /\ BankRespond("createAssignment", user, 201)
    /\ BankRest

\* PUT /api/assignments/:id: findByIdAndUpdate(id, updateData,
\* {runValidators: true})
UpdateAssignment(user, hasQuestions, questions) ==
    /\ IF ~bank.created
       THEN BankRespond("updateAssignment", user, 404) /\ UNCHANGED bank
       ELSE IF user # Instructor
       THEN BankRespond("updateAssignment", user, 403) /\ UNCHANGED bank
       ELSE LET stored == IF hasQuestions THEN CastQuestions(questions, <<>>)
                          ELSE bank.questions
            IN IF ~QuestionsValid(stored)
               THEN BankRespond("updateAssignment", user, 500) /\ UNCHANGED bank
               ELSE /\ bank' = [bank EXCEPT !.questions = stored]
                    /\ BankRespond("updateAssignment", user, 200)
    /\ BankRest

\* body('points').optional().isInt({min: 1})
PointsRefused(points) == points # JsUndefined /\ points.v < 1

\* the checks of the multiple-choice fields
McFieldsRefused(q) ==
    \/ q.options = JsUndefined
    \/ q.options.v < 2
    \/ q.correctOption = JsUndefined
    \/ q.correctOption.v < 0
    \/ q.correctOption.v >= q.options.v

\* the question POST /:id/questions pushes
NewQuestion(q) ==
    [q EXCEPT !.points = IF q.points = JsUndefined \/ q.points.v = 0
                         THEN Num(1) ELSE q.points]

\* POST /api/assignments/:id/questions
AddQuestion(user, q) ==
    /\ Len(bank.questions) < MaxBank
    /\ IF PointsRefused(q.points)
       THEN BankRespond("addQuestion", user, 400) /\ UNCHANGED bank
       ELSE IF ~bank.created
       THEN BankRespond("addQuestion", user, 404) /\ UNCHANGED bank
       ELSE IF user # Instructor
       THEN BankRespond("addQuestion", user, 403) /\ UNCHANGED bank
       ELSE IF q.type = "multiple-choice" /\ McFieldsRefused(q)
       THEN BankRespond("addQuestion", user, 400) /\ UNCHANGED bank
       ELSE IF q.type = "written" /\ ~q.expectedAnswer
       THEN BankRespond("addQuestion", user, 400) /\ UNCHANGED bank
       ELSE LET questions ==
                    Append(bank.questions,
                           CastQuestion(NewQuestion(q),
                                        FreshQuestionId(bank.questions)))
            IN IF ~QuestionsValid(questions)
               THEN BankRespond("addQuestion", user, 500) /\ UNCHANGED bank
               ELSE /\ bank' = [bank EXCEPT !.questions = questions]
                    /\ BankRespond("addQuestion", user, 201)
    /\ BankRest

\* the question after the assignments of PUT /:id/questions/:questionId
UpdatedQuestion(question, body) ==
    LET type == IF body.type # NULL THEN body.type ELSE question.type
    IN [question EXCEPT
            !.type = type,
            !.points = IF body.points # JsUndefined THEN body.points ELSE @,
            !.options = IF type = "multiple-choice" /\ body.options # JsUndefined
                        THEN body.options.v ELSE @,
            !.correctOption =
                IF type = "multiple-choice" /\ body.correctOption # JsUndefined
                THEN body.correctOption ELSE @,
            !.expectedAnswer = IF type = "written" /\ body.expectedAnswer
                               THEN TRUE ELSE @]

\* PUT /api/assignments/:id/questions/:questionId
UpdateQuestion(user, questionId, body) ==
    /\ IF ~bank.created
       THEN BankRespond("updateQuestion", user, 404) /\ UNCHANGED bank
       ELSE IF user # Instructor
       THEN BankRespond("updateQuestion", user, 403) /\ UNCHANGED bank
       ELSE LET i == QuestionIndex(bank.questions, questionId)
            IN IF i = 0
               THEN BankRespond("updateQuestion", user, 404) /\ UNCHANGED bank
               ELSE LET questions ==
                            [bank.questions EXCEPT
                                ![i] = UpdatedQuestion(bank.questions[i], body)]
                    IN IF ~QuestionsValid(questions)
                       THEN /\ BankRespond("updateQuestion", user, 500)
                            /\ UNCHANGED bank
                       ELSE /\ bank' = [bank EXCEPT !.questions = questions]
                            /\ BankRespond("updateQuestion", user, 200)
    /\ BankRest

\* DELETE /api/assignments/:id/questions/:questionId
DeleteQuestion(user, questionId) ==
    /\ IF ~bank.created
       THEN BankRespond("deleteQuestion", user, 404) /\ UNCHANGED bank
       ELSE IF user # Instructor
       THEN BankRespond("deleteQuestion", user, 403) /\ UNCHANGED bank
       ELSE LET i == QuestionIndex(bank.questions, questionId)
            IN IF i = 0
               THEN BankRespond("deleteQuestion", user, 404) /\ UNCHANGED bank
               ELSE /\ bank' = [bank EXCEPT !.questions = RemoveAt(@, i)]
                    /\ BankRespond("deleteQuestion", user, 200)
    /\ BankRest

InitBank ==
    ProgInit /\ StatIdle /\ PureIdle /\ ConcIdle /\ SubIdle /\ BankIdle
        /\ AutoGradeIdle /\ AuthIdle /\ AttIdle

NextBank ==
    \/ \E u \in {Instructor, OtherInstructor}, h \in BOOLEAN, q \in QuestionArrays :
            CreateAssignment(u, h, q)
    \/ \E u \in {Instructor, OtherInstructor}, h \in BOOLEAN, q \in QuestionArrays :
            UpdateAssignment(u, h, q)
    \/ \E u \in {Instructor, OtherInstructor}, q \in QuestionBodies :
            AddQuestion(u, q)
    \/ \E u \in {Instructor, OtherInstructor}, id \in 1..(MaxBank + 1),
          body \in QuestionUpdates : UpdateQuestion(u, id, body)
    \/ \E u \in {Instructor, OtherInstructor}, id \in 1..(MaxBank + 1) :
            DeleteQuestion(u, id)

SpecBank == InitBank /\ [][NextBank]_vars

(***************************************************************************)
(* SpecAuth: the password reset routes, one request at a time, on one      *)
(* account.  Time is in milliseconds.                                      *)
(***************************************************************************)
\* User.findOne({email})
FindUserByEmail(a, email) == IF a.user.email = email THEN {a.user} ELSE {}

\* the user as the request route saves it
Requested(user, resetToken, now) ==
    [user EXCEPT !.passwordResetToken = Sha256(resetToken),
                 !.passwordResetExpires = now + ResetTtl]

AuthRest ==
    UNCHANGED <<progVars, statVars, concVars, subVars, bank, autoGrade, att>>

\* POST /api/auth/request-password-reset; sent is whether the mail went out
RequestPasswordReset(email, sent) ==
    /\ auth.nextToken <= MaxTokens
    /\ LET found == FindUserByEmail(auth, email)
           resetToken == auth.nextToken
           response ==
                IF found = {}
                THEN AuthResponse("request", 200, "if the email exists", NULL, 0)
                ELSE IF ~auth.user.isActive
                THEN AuthResponse("request", 400, "deactivated", NULL, 0)
                ELSE IF sent
                THEN AuthResponse("request", 200, "link sent", email, 0)
                ELSE AuthResponse("request", 200, "not sent", NULL, resetToken)
       IN auth' =
            IF found = {} \/ ~auth.user.isActive
            THEN [auth EXCEPT !.resp = response,
                              !.requested[email] = response]
            ELSE [auth EXCEPT !.user = Requested(@, resetToken, auth.now),
                              !.nextToken = @ + 1,
                              !.issued = Append(@, resetToken),
                              !.resp = response,
                              !.requested[email] = response]
    /\ AuthRest

\* User.findOne({passwordResetToken: hashedToken,
\*               passwordResetExpires: {$gt: Date.now()}})
FindUserByToken(a, resetToken) ==
    IF /\ a.user.passwordResetToken = Sha256(resetToken)
       /\ a.user.passwordResetExpires > a.now
    THEN {a.user} ELSE {}

\* a reset that leaves the token and expiry in place
PasswordReset_KeepsToken(user, newPassword) ==
    [user EXCEPT !.password = newPassword]

\* the user as the reset route saves it
PasswordReset(user, newPassword) ==
    [user EXCEPT !.password = newPassword,
                 !.passwordResetToken = NoHash,
                 !.passwordResetExpires = 0]

\* PUT /api/auth/reset-password
ResetPassword(resetToken, newPassword, confirmPassword) ==
    /\ auth' =
        IF newPassword # confirmPassword
        THEN [auth EXCEPT !.resp = AuthResponse("reset", 400, "do not match", NULL, 0),
                          !.presented = resetToken]
        ELSE IF FindUserByToken(auth, resetToken) = {}
        THEN [auth EXCEPT !.resp = AuthResponse("reset", 400, "invalid or expired",
                                                NULL, 0),
                          !.presented = resetToken]
        ELSE [auth EXCEPT !.user = PasswordReset(@, newPassword),
                          !.used = @ \cup {resetToken},
                          !.presented = resetToken,
                          !.resp = AuthResponse("reset", 200, "reset", NULL, 0)]
    /\ AuthRest

\* half of the token's lifetime passes
TimePasses ==
    /\ auth.now < MaxTicks * (ResetTtl \div 2)
    /\ auth' = [auth EXCEPT !.now = @ + (ResetTtl \div 2)]
    /\ AuthRest

AuthInit == \E isActive \in BOOLEAN : auth = AuthStart(isActive)

InitAuth ==
    ProgInit /\ StatIdle /\ PureIdle /\ ConcIdle /\ SubIdle /\ BankIdle
        /\ AutoGradeIdle /\ AuthInit /\ AttIdle

Passwords == {"p1", "p2"}

NextAuth ==
    \/ \E email \in {KnownEmail, UnknownEmail}, sent \in BOOLEAN :
            RequestPasswordReset(email, sent)
    \/ \E t \in 1..MaxTokens, p \in Passwords, c \in Passwords :
            ResetPassword(t, p, c)
    \/ TimePasses

SpecAuth == InitAuth /\ [][NextAuth]_vars

(***************************************************************************)
(* SpecAtt: attendance-marking requests in flight together.  One student   *)
(* holds an enrollment in the course; every await of the handler and of    *)
(* updateAttendancePercentage is a step.                                   *)
(***************************************************************************)
EnrolledStudent == "s1"

\* req.body.students
RECURSIVE StudentLists(_)
StudentLists(n) ==
    IF n = 0 THEN {<<>>}
    ELSE StudentLists(n - 1) \cup
         {Append(l, [student |-> s, status |-> st]) :
            l \in {k \in StudentLists(n - 1) : Len(k) = n - 1},
            s \in {EnrolledStudent, OtherStudent},
            st \in {"present", "absent"}}

\* the entries of a students array that mark the student with a status in sts
RECURSIVE CountMarks(_, _, _)
CountMarks(students, student, sts) ==
    IF students = <<>> THEN 0
    ELSE (IF Head(students).student = student /\ Head(students).status \in sts
          THEN 1 ELSE 0) + CountMarks(Tail(students), student, sts)

AttRest ==
    UNCHANGED <<progVars, statVars, concVars, subVars, bank, autoGrade, auth>>

\* what a request does once a student of its array is dealt with
NextStudent(r, students) ==
    IF students = <<>> THEN IdleMark
    ELSE [att.reqs[r] EXCEPT !.pc = "inc", !.students = students]

\* POST /api/attendance up to Attendance.findOne({course, date})
StartMark(r, user, date, students) ==
    /\ att.reqs[r].pc = "idle"
    /\ att.started < MaxRequests
    /\ att' =
        IF user # Instructor
        THEN [att EXCEPT !.status = 403, !.started = @ + 1]
        ELSE IF date \in att.dates
        THEN [att EXCEPT !.status = 400, !.started = @ + 1]
        ELSE [att EXCEPT !.started = @ + 1,
                         !.reqs[r] = [IdleMark EXCEPT !.pc = "save", !.date = date,
                                                     !.students = students]]
    /\ AttRest

\* attendance.save()
SaveAttendance(r) ==
    /\ att.reqs[r].pc = "save"
    /\ LET students == att.reqs[r].students
       IN att' =
            [att EXCEPT
                !.dates = @ \cup {att.reqs[r].date},
                !.marks =
                    [total |-> @.total + CountMarks(students, EnrolledStudent,
                                                    {"present", "absent"}),
                     present |-> @.present + CountMarks(students, EnrolledStudent,
                                                        {"present"})],
                !.status = IF students = <<>> THEN 201 ELSE @,
                !.reqs[r] = NextStudent(r, students)]
    /\ AttRest

\* Enrollment.findOneAndUpdate({student, course}, {$inc: ...}, {new: true})
IncrementAttendance(r) ==
    /\ att.reqs[r].pc = "inc"
    /\ LET entry == Head(att.reqs[r].students)
           counted ==
                [totalClasses |-> att.enrollment.totalClasses + 1,
                 attendedClasses |-> att.enrollment.attendedClasses
                                     + (IF entry.status = "present" THEN 1 ELSE 0)]
       IN att' =
            IF entry.student # EnrolledStudent
            THEN [att EXCEPT
                    !.status = IF Tail(att.reqs[r].students) = <<>> THEN 201 ELSE @,
                    !.reqs[r] = NextStudent(r, Tail(att.reqs[r].students))]
            ELSE [att EXCEPT
                    !.enrollment.totalClasses = counted.totalClasses,
                    !.enrollment.attendedClasses = counted.attendedClasses,
                    !.reqs[r].pc = "percentage",
                    !.reqs[r].enrollment = counted]
    /\ AttRest

\* the percentage of the enrollment findOneAndUpdate returned
AttendancePercentage(enrollment) ==
    IF enrollment.totalClasses > 0
    THEN Scaled(enrollment.attendedClasses, enrollment.totalClasses, 100)
    ELSE FZero

\* Enrollment.findByIdAndUpdate(enrollment._id,
\*     {'attendance.attendancePercentage': percentage})
SetPercentage(r) ==
    /\ att.reqs[r].pc = "percentage"
    /\ att' =
        [att EXCEPT
            !.enrollment.attendancePercentage =
                AttendancePercentage(att.reqs[r].enrollment),
            !.status = IF Tail(att.reqs[r].students) = <<>> THEN 201 ELSE @,
            !.reqs[r] = NextStudent(r, Tail(att.reqs[r].students))]
    /\ AttRest

InitAtt ==
    ProgInit /\ StatIdle /\ PureIdle /\ ConcIdle /\ SubIdle /\ BankIdle
        /\ AutoGradeIdle /\ AuthIdle /\ AttIdle

Dates == 1..MaxRequests

NextAtt ==
    \/ \E r \in Slots, u \in {Instructor, OtherInstructor}, d \in Dates,
          students \in StudentLists(MaxStudents) : StartMark(r, u, d, students)
    \/ \E r \in Slots : SaveAttendance(r)
    \/ \E r \in Slots : IncrementAttendance(r)
    \/ \E r \in Slots : SetPercentage(r)

SpecAtt == InitAtt /\ [][NextAtt]_vars

(***************************************************************************)
(* Properties of the progress record                                       *)
(***************************************************************************)
\* the (module entry, lecture entry) positions of a record marked complete
CompletedEntries(d) ==
    {<<i, j>> \in (1..Len(d.modulesProgress)) \X (1..(MaxLectures + 1)) :
        /\ j <= Len(d.modulesProgress[i].lecturesProgress)
        /\ d.modulesProgress[i].lecturesProgress[j].completed}

\* C1: in every stored progress record, completedLecturesCount is the number
\* of lecture-progress entries marked complete, over all module-progress
\* entries the record holds.
C1_CountMatchesEntries ==
    \A d \in progressDocs :
        d.completedLecturesCount = Cardinality(CompletedEntries(d))

\* a record holding a complete and an incomplete entry, just written by a toggle
C1_Witness ==
    /\ resp = Response("toggle", "s1", 200)
    /\ \E d \in progressDocs :
        /\ d.completedLecturesCount = 1
        /\ \E i \in 1..Len(d.modulesProgress) :
            \E j \in 1..Len(d.modulesProgress[i].lecturesProgress) :
                ~d.modulesProgress[i].lecturesProgress[j].completed

\* C2: calculateProgressStats returns the percentage rounded to the nearest
\* integer (halves up) when the course has lectures, and 0 with
\* completed = FALSE when it has none.
C2_PercentageIsRounded ==
    statResult # NoResult =>
        LET c == statInput.completed
            t == statInput.total
            p == statResult.progressPercentage
        IN /\ statResult.completedLecturesCount = c
           /\ statResult.totalLecturesCount = t
           /\ t > 0 => (2 * t * p - t <= 200 * c /\ 200 * c < 2 * t * p + t)
           /\ t = 0 => (p = 0 /\ statResult.completed = FALSE)

\* C3: progressPercentage is an integer in [0, 100] in every result of
\* calculateProgressStats on the course and a stored record, whatever was
\* added to or removed from the course since the record was written.
C3_PercentageInRange ==
    \A d \in progressDocs :
        calculateProgressStats(course, d).progressPercentage \in 0..100

\* C4: in every record written by a toggle, completed is true iff
\* totalLecturesCount > 0 and completedLecturesCount = totalLecturesCount.
C4_CompletedIffAllDone ==
    (resp.op = "toggle" /\ resp.status = 200) =>
        \A d \in FindProgress(progressDocs, resp.user, CourseId) :
            d.completed <=> (/\ d.totalLecturesCount > 0
                             /\ d.completedLecturesCount = d.totalLecturesCount)

\* a toggle that completed a course of two lectures
C4_Witness ==
    /\ resp.op = "toggle" /\ resp.status = 200
    /\ \E d \in progressDocs : d.completed /\ d.totalLecturesCount = 2

\* the lectures of the course
CourseLectures ==
    {l \in LectureIds :
        \E i \in 1..Len(course.modules) :
            LectureIndex(course.modules[i].lectures, l) # 0}

\* every lecture of the course was toggled exactly once since the record
\* was seeded, and the course is as it was then
AllToggledOnce(user) == fresh[user] /\ toggledOnce[user] = CourseLectures

\* C5: for all courses, a freshly seeded record whose every lecture was
\* toggled exactly once is completed, at 100 percent.
C5_AllToggledCompletes ==
    \A u \in Users : \A d \in FindProgress(progressDocs, u, CourseId) :
        AllToggledOnce(u) => (d.completed /\ d.progressPercentage = 100)

\* C5 for courses with at least one lecture: a freshly seeded record whose
\* every lecture was toggled exactly once is completed, at 100 percent.
C5_AllToggledCompletesNonEmpty ==
    \A u \in Users : \A d \in FindProgress(progressDocs, u, CourseId) :
        (AllToggledOnce(u) /\ CourseLectures # {}) =>
            (d.completed /\ d.progressPercentage = 100)

\* both lectures of a two-module course toggled once each
C5_Witness ==
    /\ AllToggledOnce("s1")
    /\ Len(course.modules) = 2
    /\ \A i \in 1..Len(course.modules) : Len(course.modules[i].lectures) = 1
    /\ FindProgress(progressDocs, "s1", CourseId) # {}

\* C6: a lecture toggled to complete and, as the very next operation,
\* toggled back leaves the record with the completedLecturesCount it had
\* before the first toggle and the lecture's completedAt null.
C6_ToggleTwiceRestores ==
    pair.stage = 2 =>
        \A d \in FindProgress(progressDocs, pair.user, CourseId) :
            /\ d.completedLecturesCount = pair.count0
            /\ LectureEntry(d, pair.lecture).completedAt = NULL
            /\ ~LectureEntry(d, pair.lecture).completed

\* the second toggle of a pair, on a record that holds another complete lecture
C6_Witness ==
    /\ pair.stage = 2
    /\ pair.count0 = 1
    /\ FindProgress(progressDocs, pair.user, CourseId) # {}

NoRequestInFlight == \A r \in Slots : reqs[r].pc = "idle"

C7_OneSubmissionPerPair ==
    \A u \in SubStudents :
        Cardinality(FindSubmission(submissions, AssignmentId, u)) <= 1

\* a create that lost the race for the pair, whose one record was resubmitted
C7_Witness ==
    /\ resp = Response("create", "s1", 500)
    /\ \E d \in submissions : d.resubmissionCount > 0
    /\ Cardinality(submissions) = 1

\* C10: in every stored submission with a grade, letterGrade is what
\* getLetterGrade gives for the stored percentage.
C10_LetterFollowsPercentage ==
    \A d \in submissions :
        d.grade # NoGrade => d.grade.letterGrade = getLetterGrade(d.grade.percentage)

\* a submission graded D by hand and resubmitted since
C10_Witness ==
    \E d \in submissions :
        /\ d.status = "resubmitted"
        /\ d.grade # NoGrade
        /\ d.grade.letterGrade = "D"

(***************************************************************************)
(* Properties of the letter-grade mapping                                  *)
(***************************************************************************)
\* the mapping of the grading table: lower bound of each bucket, top-down
Thresholds ==
    <<[min |-> 97, letter |-> "A+"], [min |-> 93, letter |-> "A"],
      [min |-> 90, letter |-> "A-"], [min |-> 87, letter |-> "B+"],
      [min |-> 83, letter |-> "B"], [min |-> 80, letter |-> "B-"],
      [min |-> 77, letter |-> "C+"], [min |-> 73, letter |-> "C"],
      [min |-> 70, letter |-> "C-"], [min |-> 67, letter |-> "D+"],
      [min |-> 60, letter |-> "D"]>>

\* the exact percentage of the input is at least k
Reaches(input, k) ==
    IF input.below THEN input.num > k * input.den
    ELSE input.num >= k * input.den

FirstThresholdLetter(input) ==
    LET reached == {i \in 1..Len(Thresholds) : Reaches(input, Thresholds[i].min)}
    IN IF reached = {} THEN "F"
       ELSE Thresholds[CHOOSE i \in reached : \A j \in reached : i <= j].letter

\* C11: for every percentage, getLetterGrade and the pre-save hook both
\* return the letter of the first threshold the percentage reaches, read
\* top-down from 97 (A+) to 60 (D), and F below 60; so the two agree.
C11_LetterOfFirstThreshold ==
    /\ letterResult.helper # NULL =>
            letterResult.helper = FirstThresholdLetter(letterInput)
    /\ letterResult.hook # NULL =>
            letterResult.hook = FirstThresholdLetter(letterInput)
    /\ (letterResult.helper # NULL /\ letterResult.hook # NULL) =>
            letterResult.helper = letterResult.hook

\* the double just under 93 has been mapped by both, to A-
C11_Witness ==
    /\ letterInput = [num |-> 930, den |-> 10, below |-> TRUE]
    /\ letterResult = [helper |-> "A-", hook |-> "A-"]

(***************************************************************************)
(* Properties of autoGradeQuiz                                             *)
(***************************************************************************)
\* the answer's questionId matches a multiple-choice question of the input
MatchesMultipleChoice(input, studentAnswer) ==
    \E i \in 1..Len(input.questions) :
        /\ input.questions[i]._id = studentAnswer.questionId
        /\ input.questions[i].type = "multiple-choice"

\* the submitted answers that match a multiple-choice question, in order
MatchedAnswers(input) ==
    SelectSeq(input.answers, LAMBDA sa : MatchesMultipleChoice(input, sa))

RECURSIVE SumPoints(_)
SumPoints(gradedAnswers) ==
    IF gradedAnswers = <<>> THEN 0
    ELSE Head(gradedAnswers).points + SumPoints(Tail(gradedAnswers))

RECURSIVE SumEarnedPoints(_)
SumEarnedPoints(gradedAnswers) ==
    IF gradedAnswers = <<>> THEN 0
    ELSE Head(gradedAnswers).earnedPoints + SumEarnedPoints(Tail(gradedAnswers))

\* C12: autoGradeQuiz returns percentage = 100 * earnedQuestionPoints /
\* totalQuestionPoints, the sums taken over the graded answers, and
\* percentage = 0 and earnedPoints = 0 when the total is 0.
C12_PercentageOfQuestionPoints ==
    quizResult # NoResult =>
        LET total == SumPoints(quizResult.gradedAnswers)
            earned == SumEarnedPoints(quizResult.gradedAnswers)
        IN IF total = 0
           THEN quizResult.percentage = FZero /\ quizResult.earnedPoints = FZero
           ELSE quizResult.percentage = FDiv(100 * earned, total)

\* C13: autoGradeQuiz returns totalPoints = assignment.totalPoints and
\* earnedPoints = (earnedQuestionPoints / totalQuestionPoints) *
\* assignment.totalPoints, the raw sums rescaled to the declared total.
C13_EarnedPointsRescaled ==
    quizResult # NoResult =>
        LET total == SumPoints(quizResult.gradedAnswers)
            earned == SumEarnedPoints(quizResult.gradedAnswers)
        IN /\ quizResult.totalPoints = quizInput.totalPoints
           /\ total > 0 =>
                quizResult.earnedPoints =
                    FMul(FDiv(earned, total), quizInput.totalPoints)
           /\ (total = 2 /\ earned = 1 /\ quizInput.totalPoints = 100) =>
                /\ quizResult.percentage = FDiv(50, 1)
                /\ quizResult.earnedPoints = FDiv(50, 1)

\* totalPoints = 100, two 1-point questions, one of them answered correctly
C13_Witness ==
    /\ quizResult # NoResult
    /\ quizInput.totalPoints = 100
    /\ Len(quizInput.questions) = 2
    /\ \A i \in 1..2 : /\ quizInput.questions[i].type = "multiple-choice"
                       /\ quizInput.questions[i].points = Num(1)
    /\ Len(quizResult.gradedAnswers) = 2
    /\ quizResult.gradedAnswers[1].questionId # quizResult.gradedAnswers[2].questionId
    /\ SumEarnedPoints(quizResult.gradedAnswers) = 1
    /\ quizResult.earnedPoints = FDiv(50, 1)

\* C14: gradedAnswers holds exactly one entry for each submitted answer
\* whose questionId matches a multiple-choice question, in submission order;
\* the other answers produce no entry and change neither point total, so
\* the result is the one autoGradeQuiz returns without them.
C14_OneEntryPerMatchedAnswer ==
    quizResult # NoResult =>
        LET matched == MatchedAnswers(quizInput)
            graded == quizResult.gradedAnswers
            without == autoGradeQuiz(quizInput, matched)
        IN /\ Len(graded) = Len(matched)
           /\ \A i \in 1..Len(graded) :
                /\ graded[i].questionId = matched[i].questionId
                /\ graded[i].studentAnswer = matched[i].answer
           /\ quizResult.percentage = without.percentage
           /\ quizResult.earnedPoints = without.earnedPoints

\* a multiple-choice and a written question, the written one answered
\* first: only the multiple-choice answer, a correct one, has an entry
C14_Witness ==
    /\ quizResult # NoResult
    /\ Len(quizInput.questions) = 2
    /\ quizInput.questions[1].type = "multiple-choice"
    /\ quizInput.questions[2].type = "written"
    /\ Len(quizInput.answers) = 2
    /\ quizInput.answers[1].questionId = 2
    /\ quizInput.answers[2].questionId = 1
    /\ Len(quizResult.gradedAnswers) = 1
    /\ quizResult.gradedAnswers[1].questionId = 1
    /\ quizResult.gradedAnswers[1].isCorrect
    /\ quizResult.percentage = FDiv(100, 1)

\* the points of a question: 1 when points is unset
DeclaredPoints(question) ==
    IF question.points.t = "number" THEN question.points.v ELSE 1

\* C15: a graded answer is marked correct if and only if it is present
\* (neither null nor undefined) and strictly equal to the question's
\* correctOption; a correct answer earns the question's points (1 when
\* points is unset), an incorrect or absent answer earns 0.
C15_CorrectEarnsQuestionPoints ==
    quizResult # NoResult =>
        LET matched == MatchedAnswers(quizInput)
            graded == quizResult.gradedAnswers
        IN \A i \in 1..Len(graded) :
            LET question == quizInput.questions[matched[i].questionId]
                present == matched[i].answer.t \notin {"null", "undefined"}
            IN /\ graded[i].isCorrect <=>
                    /\ present
                    /\ matched[i].answer.t = question.correctOption.t
                    /\ matched[i].answer.v = question.correctOption.v
               /\ graded[i].earnedPoints =
                    IF graded[i].isCorrect THEN DeclaredPoints(question) ELSE 0

(***************************************************************************)
(* Properties of seeding, reading and toggling the progress record         *)
(***************************************************************************)
\* the record holds fresh entries for exactly the modules and lectures of c,
\* and its derived fields are zero
MirrorsCourse(d, c) ==
    /\ Len(d.modulesProgress) = Len(c.modules)
    /\ \A i \in 1..Len(c.modules) :
        LET mp == d.modulesProgress[i]
        IN /\ mp.moduleId = c.modules[i]._id
           /\ mp.completed = FALSE /\ mp.completedAt = NULL
           /\ Len(mp.lecturesProgress) = Len(c.modules[i].lectures)
           /\ \A j \in 1..Len(c.modules[i].lectures) :
                mp.lecturesProgress[j] =
                    [lectureId |-> c.modules[i].lectures[j],
                     completed |-> FALSE, completedAt |-> NULL]
    /\ d.completedLecturesCount = 0
    /\ d.progressPercentage = 0
    /\ d.completed = FALSE
    /\ d.completedAt = NULL

\* the record of the pair (user, course), if there is one
RecordsOf(docs, user) == {d \in docs : d.userId = user /\ d.courseId = CourseId}

\* C16: when no record exists for the pair, the record a get-progress or an
\* initialize request stores has exactly one entry per module of the course
\* and one per lecture of that module, all incomplete, and zeroed derived
\* fields.
C16_SeedMirrorsCourse ==
    [][(/\ resp'.op \in {"get", "initialize"}
        /\ RecordsOf(progressDocs, resp'.user) = {}
        /\ RecordsOf(progressDocs', resp'.user) # {})
       => /\ Cardinality(RecordsOf(progressDocs', resp'.user)) = 1
          /\ \A d \in RecordsOf(progressDocs', resp'.user) : MirrorsCourse(d, course)]_vars

\* a record was just seeded for a course of two modules, one with a lecture
C16_Witness ==
    /\ resp = Response("initialize", "s1", 201)
    /\ Len(course.modules) = 2
    /\ \E i \in 1..2 : Len(course.modules[i].lectures) > 0
    /\ RecordsOf(progressDocs, "s1") # {}
    /\ \A d \in RecordsOf(progressDocs, "s1") : MirrorsCourse(d, course)

\* C17: when a record exists for the pair, a get-progress or initialize
\* request stores nothing: the collection is as it was, whatever the course
\* now holds and however often the request is repeated; a request that
\* passes the handler's enrollment check is answered 200 with that record
\* (never 201, the answer of a seeding), the others 403.
C17_ExistingRecordUnchanged ==
    [][\A u \in Users :
        (/\ GetProgress(u, CourseId) \/ InitializeRoute(u, CourseId)
         /\ RecordsOf(progressDocs, u) # {})
        => /\ progressDocs' = progressDocs
           /\ resp'.status \in {200, 403}
           /\ u \in enrolled => resp'.status = 200]_vars

\* a get-progress answered with a record seeded before the course grew:
\* the record still counts the lectures the course had then
C17_Witness ==
    /\ resp = Response("get", "s1", 200)
    /\ \E d \in RecordsOf(progressDocs, "s1") :
        /\ ~MirrorsCourse(d, course)
        /\ d.totalLecturesCount < Cardinality(CourseLectures)

\* the total a record of the pair stores, as a set (one record, one value)
StoredTotals(docs, user) == {d.totalLecturesCount : d \in RecordsOf(docs, user)}

\* C18: a toggle that is saved stores as totalLecturesCount the number of
\* lectures the course has at that toggle, whatever the record holds, so a
\* lecture added since the seeding raises it; a get-progress leaves the
\* stored value as it is.
C18_TotalFromCourseAtToggle ==
    [][\A u \in Users :
        /\ (resp' = Response("toggle", u, 200)) =>
                StoredTotals(progressDocs', u) = {Cardinality(CourseLectures)}
        /\ (GetProgress(u, CourseId) /\ RecordsOf(progressDocs, u) # {}) =>
                StoredTotals(progressDocs', u) = StoredTotals(progressDocs, u)]_vars

\* a toggle saved a total of two lectures into a record that holds an entry
\* for one of them only: the other was added after the seeding
C18_Witness ==
    /\ resp = Response("toggle", "s1", 200)
    /\ \E d \in RecordsOf(progressDocs, "s1") :
        /\ d.totalLecturesCount = 2
        /\ Cardinality({l \in LectureIds :
                \E i \in 1..Len(d.modulesProgress) :
                    LectureProgressIndex(d.modulesProgress[i].lecturesProgress, l) # 0}) = 1

\* the positions of a record's module-progress entries for a module
EntriesOf(d, moduleId) ==
    {i \in 1..Len(d.modulesProgress) : d.modulesProgress[i].moduleId = moduleId}

\* C19: after a saved toggle of a lecture of module m, the record's entry
\* for m has completed = true if and only if every lecture-progress entry it
\* now holds is complete, whether or not it holds all lectures of the course
\* module, and the entries of the other modules are as they were stored.
C19_ModuleCompleteIffEntriesComplete ==
    [][\A u \in Users, m \in ModuleIds, l \in LectureIds :
        (Toggle(u, CourseId, m, l) /\ resp'.status = 200)
        => \A after \in RecordsOf(progressDocs', u) :
            /\ Cardinality(EntriesOf(after, m)) = 1
            /\ \A i \in EntriesOf(after, m) :
                LET mp == after.modulesProgress[i]
                IN mp.completed <=>
                    \A j \in 1..Len(mp.lecturesProgress) :
                        mp.lecturesProgress[j].completed
            /\ \A before \in RecordsOf(progressDocs, u) :
                /\ Len(after.modulesProgress) >= Len(before.modulesProgress)
                /\ \A i \in 1..Len(before.modulesProgress) :
                    before.modulesProgress[i].moduleId # m
                        => after.modulesProgress[i] = before.modulesProgress[i]
            /\ \A i \in 1..Len(after.modulesProgress) :
                (after.modulesProgress[i].moduleId # m
                 /\ \A before \in RecordsOf(progressDocs, u) :
                        i > Len(before.modulesProgress))
                    => /\ after.modulesProgress[i].completed = FALSE
                       /\ \A j \in 1..Len(after.modulesProgress[i].lecturesProgress) :
                            ~after.modulesProgress[i].lecturesProgress[j].completed]_vars

\* a toggle completed a module entry that holds fewer lectures than the
\* course module, beside the untouched entry of another module
C19_Witness ==
    /\ resp = Response("toggle", "s1", 200)
    /\ \E d \in RecordsOf(progressDocs, "s1") :
        /\ Len(d.modulesProgress) = 2
        /\ \E i \in 1..2, k \in 1..Len(course.modules) :
            /\ d.modulesProgress[i].moduleId = course.modules[k]._id
            /\ d.modulesProgress[i].completed
            /\ Len(d.modulesProgress[i].lecturesProgress)
                    < Len(course.modules[k].lectures)

SameSubmission(docs, d) == {x \in docs : x._id = d._id}

\* C21: history is append-only and holds prior snapshots: a step keeps the
\* entries a stored submission has, every entry it appends holds the text
\* the submission had before the step, and a step that changes the text
\* appends such an entry.
C21_HistoryHoldsPriorText ==
    [][\A d \in submissions : \A after \in SameSubmission(submissions', d) :
        /\ Len(after.history) >= Len(d.history)
        /\ SubSeq(after.history, 1, Len(d.history)) = d.history
        /\ \A i \in (Len(d.history) + 1)..Len(after.history) :
                after.history[i].submissionText = d.submissionText
        /\ after.submissionText # d.submissionText
                => Len(after.history) > Len(d.history)]_vars

\* C22: every resubmit request that succeeds leaves the stored
\* resubmissionCount one above what it was, so that the count is the number of
\* requests that succeeded, and a resubmit request that is turned away leaves
\* every stored submission as it was.
C22_CountIsSuccessfulResubmits ==
    [][/\ \A r \in Slots :
            (ResubmitSave(r) /\ resp'.status = 200) =>
                \A d \in FindSubmissionById(submissions, subReqs[r].doc._id) :
                    \A after \in SameSubmission(submissions', d) :
                        after.resubmissionCount = d.resubmissionCount + 1
       /\ (resp' # resp /\ resp'.op = "resubmit" /\ resp'.status \in {400, 403, 404})
            => submissions' = submissions]_vars

(***************************************************************************)
(* Properties of the question bank                                         *)
(***************************************************************************)
\* a stored multiple-choice question has at least 2 options, a correctOption
\* that is an index into them, and positive points
WellFormedQuestion(q) ==
    q.type = "multiple-choice" =>
        /\ q.options >= 2
        /\ q.correctOption.t = "number"
        /\ q.correctOption.v >= 0
        /\ q.correctOption.v < q.options
        /\ q.points.t = "number"
        /\ q.points.v > 0

\* C23: every multiple-choice question stored in the question bank has at
\* least 2 options, a correctOption that is a valid index into options, and
\* positive points.
C23_StoredQuestionsWellFormed ==
    \A i \in 1..Len(bank.questions) : WellFormedQuestion(bank.questions[i])

(***************************************************************************)
(* Properties of the progress reset                                        *)
(***************************************************************************)
\* C24: a progress delete for the course, issued by student s or by an admin
\* as a reset of student s's progress, removes the progress record of
\* (s, course) and leaves every other record unchanged; when s has no record
\* for the course it answers 404 and changes nothing.
C24_DeleteRemovesStudentsRecord ==
    [][\A u \in Callers, s \in Students :
        (DeleteProgress(u, CourseId) /\ (Role(u) = "student" => s = u)) =>
            IF FindProgress(progressDocs, s, CourseId) # {}
            THEN /\ progressDocs' =
                        progressDocs \ FindProgress(progressDocs, s, CourseId)
                 /\ resp'.status = 200
            ELSE /\ progressDocs' = progressDocs
                 /\ resp'.status = 404]_vars

(***************************************************************************)
(* Properties of the submission's status and grade                         *)
(***************************************************************************)
\* the grade holds the points and the percentage of an autoGradeQuiz result
GradeOf(grade, result) ==
    /\ grade # NoGrade
    /\ grade.points = result.earnedPoints
    /\ grade.percentage = result.percentage

\* two documents have the same status, and the same grade up to the letter
SameStatusAndGrade(d, e) ==
    /\ d.status = e.status
    /\ (d.grade = NoGrade) = (e.grade = NoGrade)
    /\ d.grade # NoGrade =>
            /\ d.grade.points = e.grade.points
            /\ d.grade.percentage = e.grade.percentage

C26_RequestResponseHidesAccount ==
    \A e1 \in {KnownEmail, UnknownEmail}, e2 \in {KnownEmail, UnknownEmail} :
        (/\ FindUserByEmail(auth, e1) # {}
         /\ FindUserByEmail(auth, e2) = {}
         /\ auth.requested[e1] # NoResponse
         /\ auth.requested[e2] # NoResponse)
            => auth.requested[e1] = auth.requested[e2]

\* C30: a reset succeeds only with the token whose hash is stored and whose
\* expiry has not passed; it clears the stored token and expiry; the token
\* it took had not reset a password before; and that token is the one the
\* latest reset request issued.
C30_TokenSingleUseAndTimeLimited ==
    [][\A t \in 1..MaxTokens, p \in Passwords, c \in Passwords :
        (ResetPassword(t, p, c) /\ auth'.resp.status = 200) =>
            /\ auth.user.passwordResetToken = Sha256(t)
            /\ auth.user.passwordResetExpires > auth.now
            /\ auth'.user.passwordResetToken = NoHash
            /\ auth'.user.passwordResetExpires = 0
            /\ t \notin auth.used
            /\ auth.issued # <<>>
            /\ t = auth.issued[Len(auth.issued)]]_vars

\* a token that reset the password was presented again and turned away
C30_Witness ==
    /\ auth.resp = AuthResponse("reset", 400, "invalid or expired", NULL, 0)
    /\ auth.presented \in auth.used

(***************************************************************************)
(* Properties of the attendance counters                                   *)
(***************************************************************************)
\* C27: once every attendance-marking request has finished, the enrollment's
\* totalClasses is the number of times the student was marked,
\* attendedClasses the number of those marks with status 'present', and
\* attendancePercentage is 100 * attendedClasses / totalClasses, 0 when
\* totalClasses is 0.
C27_AttendanceMatchesMarks ==
    (\A r \in Slots : att.reqs[r].pc = "idle") =>
        /\ att.enrollment.totalClasses = att.marks.total
        /\ att.enrollment.attendedClasses = att.marks.present
        /\ att.enrollment.attendancePercentage =
                IF att.enrollment.totalClasses = 0 THEN FZero
                ELSE FDiv(100 * att.enrollment.attendedClasses,
                          att.enrollment.totalClasses)

(***************************************************************************)
(* Properties of the rejected progress requests                            *)
(***************************************************************************)
\* C28: a toggle that is rejected (student not enrolled, course not found,
\* module not in the course, lecture not in the module) leaves the Progress
\* collection as it was, and so does a get-progress or an initialize of a
\* student who is not enrolled.
C28_RejectedRequestsChangeNothing ==
    [][/\ \A u \in Students, c \in {CourseId, MissingCourseId},
             m \in ModuleIds, l \in LectureIds :
            (/\ Toggle(u, c, m, l)
             /\ \/ u \notin enrolled
                \/ c # CourseId
                \/ ModuleIndex(course.modules, m) = 0
                \/ LectureIndex(course.modules[ModuleIndex(course.modules, m)].lectures,
                                l) = 0)
                => progressDocs' = progressDocs
       /\ \A u \in Students, c \in {CourseId, MissingCourseId} :
            ((GetProgress(u, c) \/ InitializeRoute(u, c)) /\ u \notin enrolled)
                => progressDocs' = progressDocs]_vars

\* a toggle of an enrolled student was answered 404 (course, module or
\* lecture not found) while the student holds a record with a completed lecture
C28_Witness ==
    /\ resp = Response("toggle", "s1", 404)
    /\ "s1" \in enrolled
    /\ course.modules # <<>>
    /\ \E d \in RecordsOf(progressDocs, "s1") : d.completedLecturesCount > 0

(***************************************************************************)
(* Bounds of the autoGradeQuiz result                                      *)
(***************************************************************************)
\* every question of the assignment has points that are a positive number
PositivePoints(questions) ==
    \A i \in 1..Len(questions) :
        questions[i].points.t = "number" /\ questions[i].points.v > 0

\* C29: for an assignment whose question points are positive and any list of
\* answers, repeated answers to one question included, autoGradeQuiz returns
\* 0 <= percentage <= 100 and 0 <= earnedPoints <= assignment.totalPoints,
\* and the earnedPoints of its gradedAnswers sum to at most their points.
C29_ResultWithinBounds ==
    (quizResult # NoResult /\ PositivePoints(quizInput.questions)) =>
        /\ FAtLeast(quizResult.percentage, 0)
        /\ FAtMost(quizResult.percentage, 100)
        /\ FAtLeast(quizResult.earnedPoints, 0)
        /\ FAtMost(quizResult.earnedPoints, quizInput.totalPoints)
        /\ SumEarnedPoints(quizResult.gradedAnswers) >= 0
        /\ SumEarnedPoints(quizResult.gradedAnswers)
                <= SumPoints(quizResult.gradedAnswers)

\* two correct answers to the same question were graded, to the full score
C29_Witness ==
    /\ quizResult # NoResult
    /\ PositivePoints(quizInput.questions)
    /\ Len(quizResult.gradedAnswers) = 2
    /\ quizResult.gradedAnswers[1].questionId = quizResult.gradedAnswers[2].questionId
    /\ quizResult.gradedAnswers[1].isCorrect
    /\ quizResult.gradedAnswers[2].isCorrect
    /\ quizResult.percentage = FDiv(100, 1)
    /\ quizResult.earnedPoints = FDiv(quizInput.totalPoints, 1)

====
